---- MODULE Spec2Model ----
(***************************************************************************)
(* A model of the Monkey bytecode toolchain of this repository:            *)
(*   - the stack virtual machine (package vm, src/parser/parser.go lines   *)
(*     515-990): operand stack, frame stack, globals, fetch-decode-execute *)
(*   - the first compiler and the first virtual machine                    *)
(*     (src/compiler/compiler.go, src/vm/vm.go)                            *)
(* Go values are pointers to objects: a value is a record that carries the *)
(* address of the object (addr) beside its immutable content, so that Go's *)
(* interface comparison (pointer identity) and content comparison differ.  *)
(***************************************************************************)
EXTENDS Integers, Sequences, FiniteSets, TLC

VARIABLES
    vm,       \* the VM struct: constants, stack, stackPointer, globals, frames, framesIndex
    heap,     \* the compiled-function objects of the Go heap, by address
    status,   \* where Run is: "running", "returned" (nil), "error", "panic"
    err,      \* the error Run returned ("" is nil)
    last,     \* history: the instruction executed last and the state it started from
    calls,    \* history: for each frame above main, the stack, stack pointer and argc at its OpCall and the caller's ip after it
    origin,   \* history: "assembled" or "compiled" bundle, "stateful" for a bundle run over earlier globals
    program,  \* the syntax tree handed to a compiler (NoProgram for an assembled bundle)
    compiler, \* the Compiler struct of src/compiler/compiler.go: instructions, constants
    vm0,      \* the VM struct of src/vm/vm.go and the loop variable i of its Run
    encoding, \* a caller of package bytecode: its opcode and operand, and what Make, ReadUint16 and Lookup returned
    parser    \* the Parser struct of src/parser/parser.go: the tokens of its lexer, the position of currentToken, errors

vars == <<vm, heap, status, err, last, calls, origin, program, compiler, vm0, encoding, parser>>

(***************************************************************************)
(* Capacities                                                              *)
(***************************************************************************)
stackCapacity == 2048
GlobalCapacity == 65536
frameCapacity == 1024

(***************************************************************************)
(* Opcodes.  OpConstant is the first (iota); the others are numbered       *)
(* densely in the order of the instruction table.                          *)
(***************************************************************************)
OpConstant == 0
OpTrue == 1
OpFalse == 2
OpNull == 3
OpPop == 4
OpAdd == 5
OpSub == 6
OpMul == 7
OpDiv == 8
OpEqual == 9
OpNotEqual == 10
OpGreater == 11
OpBang == 12
OpMinus == 13
OpJump == 14
OpJumpNotTruthy == 15
OpSetGlobal == 16
OpGetGlobal == 17
OpSetLocal == 18
OpGetLocal == 19
OpArray == 20
OpHash == 21
OpIndex == 22
OpCall == 23
OpReturnValue == 24
OpReturnNothing == 25

(***************************************************************************)
(* Runtime values (package object).  nil is Go's nil interface, the        *)
(* content of a slot never written.                                        *)
(***************************************************************************)
nil == [type |-> "nil"]
True == [type |-> "BOOLEAN", addr |-> 1, bool |-> TRUE]
False == [type |-> "BOOLEAN", addr |-> 2, bool |-> FALSE]
Null == [type |-> "NULL", addr |-> 3]

Integer(a, n) == [type |-> "INTEGER", addr |-> a, int |-> n]
String(a, s) == [type |-> "STRING", addr |-> a, str |-> s]
Array(a, elements) == [type |-> "ARRAY", addr |-> a, Elements |-> elements]
Hash(a, pairs) == [type |-> "HASH", addr |-> a, Pairs |-> pairs]
CompiledFunction(a) == [type |-> "COMPILED_FUNCTION", addr |-> a]

\* The object a compiled-function value points to.
FunctionObject(ins, numLocals, numParameters) ==
    [Instructions |-> ins, NumLocals |-> numLocals, NumParameters |-> numParameters]

\* object.Hashable: integer, boolean and string values have a HashKey.
Hashable(o) == o.type \in {"INTEGER", "BOOLEAN", "STRING"}

\* HashKey: the type tag and the content (the content hash of a string is
\* modelled without collisions, by the content itself).
HashKey(o) ==
    CASE o.type = "INTEGER" -> [Type |-> "INTEGER", Value |-> o.int, Str |-> ""]
      [] o.type = "BOOLEAN" -> [Type |-> "BOOLEAN", Value |-> IF o.bool THEN 1 ELSE 0, Str |-> ""]
      [] o.type = "STRING" -> [Type |-> "STRING", Value |-> 0, Str |-> o.str]

HashPair(key, value) == [Key |-> key, Value |-> value]

\* Go's == on two interface values holding object pointers.
SameObject(a, b) ==
    IF a.type = "nil" \/ b.type = "nil" THEN a.type = b.type ELSE a.addr = b.addr

(***************************************************************************)
(* Instruction decoding (package bytecode)                                 *)
(***************************************************************************)
\* instructions[from:] with a 0-based from.
SliceFrom(ins, from) == SubSeq(ins, from + 1, Len(ins))

ReadUint16(i) == i[1] * 256 + i[2]

ReadUint8(i) == i[1]

(***************************************************************************)
(* What a handler leaves behind: the VM, the error it returned ("" is      *)
(* nil), and whether the Go runtime panicked (index out of range, nil      *)
(* dereference, failed type assertion, division by zero).                  *)
(***************************************************************************)
Ok(v) == [vm |-> v, err |-> "", panic |-> FALSE]
Fail(v, msg) == [vm |-> v, err |-> msg, panic |-> FALSE]
Panic(v) == [vm |-> v, err |-> "", panic |-> TRUE]
Good(r) == r.err = "" /\ ~r.panic

(***************************************************************************)
(* The operand stack: a Go slice of stackCapacity slots, all nil at first. *)
(* Only the slots written so far are stored.                               *)
(***************************************************************************)
InStack(i) == i \in 0 .. stackCapacity - 1

StackAt(v, i) == IF i \in DOMAIN v.stack THEN v.stack[i] ELSE nil

Put(f, i, x) == [j \in DOMAIN f \union {i} |-> IF j = i THEN x ELSE f[j]]

\* Mutant: the capacity test of push is off by one.
pushOffByOne(v, o) ==
    IF v.stackPointer > stackCapacity THEN Fail(v, "Stack overflow")
    ELSE IF ~InStack(v.stackPointer) THEN Panic(v)
    ELSE Ok([v EXCEPT !.stack = Put(@, v.stackPointer, o),
                      !.stackPointer = @ + 1])

push(v, o) ==
    IF v.stackPointer >= stackCapacity THEN Fail(v, "Stack overflow")
    ELSE IF ~InStack(v.stackPointer) THEN Panic(v)
    ELSE Ok([v EXCEPT !.stack = Put(@, v.stackPointer, o),
                      !.stackPointer = @ + 1])

\* pop: the value read, the VM after it, and whether the read panicked.
pop(v) ==
    IF InStack(v.stackPointer - 1)
    THEN [vm |-> [v EXCEPT !.stackPointer = @ - 1],
          o |-> StackAt(v, v.stackPointer - 1), panic |-> FALSE]
    ELSE [vm |-> v, o |-> nil, panic |-> TRUE]

LastPoppedTop(v) == StackAt(v, v.stackPointer - 1)

LastPopped(v) == StackAt(v, v.stackPointer)

(***************************************************************************)
(* Frames                                                                  *)
(***************************************************************************)
BuildFrame(fn, basePointer) == [fn |-> fn, ip |-> -1, basePointer |-> basePointer]

InFrames(i) == i \in 0 .. frameCapacity - 1

currentFrame(v) == v.frames[v.framesIndex - 1]

pushFrame(v, f) ==
    IF InFrames(v.framesIndex)
    THEN Ok([v EXCEPT !.frames = Put(@, v.framesIndex, f), !.framesIndex = @ + 1])
    ELSE Panic(v)

popFrame(v) ==
    [vm |-> [v EXCEPT !.framesIndex = @ - 1], frame |-> v.frames[v.framesIndex - 1]]

\* vm.currentFrame().ip = ip
SetIp(v, ip) == [v EXCEPT !.frames[v.framesIndex - 1].ip = ip]

AddIp(v, n) == SetIp(v, currentFrame(v).ip + n)

(***************************************************************************)
(* Globals: a Go slice (GlobalCapacity slots from BuildVM, the embedder's  *)
(* slice from BuildStatefulVM); only the slots written are stored.         *)
(***************************************************************************)
InGlobals(v, i) == i \in 0 .. v.globals.len - 1

GlobalAt(v, i) == IF i \in DOMAIN v.globals.slots THEN v.globals.slots[i] ELSE nil

(***************************************************************************)
(* Helpers of the instruction handlers                                     *)
(***************************************************************************)
\* Mutant: a new Boolean object is made for every result.
toBooleanObjectFresh(input) == [type |-> "BOOLEAN", addr |-> 0, bool |-> input]

toBooleanObject(input) == IF input THEN True ELSE False

isTruthy(obj) ==
    CASE obj.type = "BOOLEAN" -> obj.bool
      [] obj.type = "NULL" -> FALSE
      [] OTHER -> TRUE

\* Go's integer division truncates toward zero.
Quotient(a, b) ==
    IF (a >= 0) = (b >= 0) THEN (IF a >= 0 THEN a ELSE -a) \div (IF b >= 0 THEN b ELSE -b)
    ELSE -((IF a >= 0 THEN a ELSE -a) \div (IF b >= 0 THEN b ELSE -b))

\* &object.T{...}: a new object at the next free address.
Alloc(v) == [v EXCEPT !.heapTop = @ + 1]

\* Mutant: the call does not compare numArgs with NumParameters.
callFunctionAnyArity(v, numArgs) ==
    LET at == v.stackPointer - 1 - numArgs IN
    IF ~InStack(at) THEN Panic(v)
    ELSE LET callee == StackAt(v, at) IN
         IF callee.type # "COMPILED_FUNCTION" THEN Fail(v, "Calling non-function")
         ELSE LET fn == heap[callee.addr]
                  frame == BuildFrame(callee.addr, v.stackPointer - numArgs)
                  pushed == pushFrame(v, frame)
              IN  IF pushed.panic THEN pushed
                  ELSE Ok([pushed.vm EXCEPT
                             !.stackPointer = frame.basePointer + fn.NumLocals])

callFunctionBaseAtCallee(v, numArgs) ==
    LET at == v.stackPointer - 1 - numArgs IN
    IF ~InStack(at) THEN Panic(v)
    ELSE LET callee == StackAt(v, at) IN
         IF callee.type # "COMPILED_FUNCTION" THEN Fail(v, "Calling non-function")
         ELSE LET fn == heap[callee.addr] IN
              IF numArgs # fn.NumParameters
              THEN Fail(v, "Wrong number of arguments. Expected=" \o ToString(fn.NumParameters)
                             \o ", Actual=" \o ToString(numArgs))
              ELSE LET frame == BuildFrame(callee.addr, v.stackPointer - numArgs - 1)
                       pushed == pushFrame(v, frame)
                   IN  IF pushed.panic THEN pushed
                       ELSE Ok([pushed.vm EXCEPT
                                  !.stackPointer = frame.basePointer + fn.NumLocals])

callFunction(v, numArgs) ==
    LET at == v.stackPointer - 1 - numArgs IN
    IF ~InStack(at) THEN Panic(v)
    ELSE LET callee == StackAt(v, at) IN
         IF callee.type # "COMPILED_FUNCTION" THEN Fail(v, "Calling non-function")
         ELSE LET fn == heap[callee.addr] IN
              IF numArgs # fn.NumParameters
              THEN Fail(v, "Wrong number of arguments. Expected=" \o ToString(fn.NumParameters)
                             \o ", Actual=" \o ToString(numArgs))
              ELSE LET frame == BuildFrame(callee.addr, v.stackPointer - numArgs)
                       pushed == pushFrame(v, frame)
                   IN  IF pushed.panic THEN pushed
                       ELSE Ok([pushed.vm EXCEPT
                                  !.stackPointer = frame.basePointer + fn.NumLocals])

\* Mutant: the upper bound of the index test is off by one (Go panics on
\* Elements[len]).
executeArrayIndexOffByOne(v, array, index) ==
    LET i == index.int IN
    IF i < 0 \/ i > Len(array.Elements) THEN push(v, Null)
    ELSE IF i = Len(array.Elements) THEN Panic(v)
    ELSE push(v, array.Elements[i + 1])

executeArrayIndex(v, array, index) ==
    LET i == index.int IN
    IF i < 0 \/ i > Len(array.Elements) - 1 THEN push(v, Null)
    ELSE push(v, array.Elements[i + 1])

executeHashIndex(v, hash, index) ==
    IF ~Hashable(index) THEN Fail(v, "Unusable as hash key")
    ELSE IF HashKey(index) \notin DOMAIN hash.Pairs THEN push(v, Null)
    ELSE push(v, hash.Pairs[HashKey(index)].Value)

executeIndex(v, left, index) ==
    IF left.type = "nil" THEN Panic(v)
    ELSE IF left.type = "ARRAY" /\ index.type = "nil" THEN Panic(v)
    ELSE IF left.type = "ARRAY" /\ index.type = "INTEGER" THEN executeArrayIndex(v, left, index)
    ELSE IF left.type = "HASH" THEN executeHashIndex(v, left, index)
    ELSE Fail(v, "Index operator not supported for " \o left.type)

\* The loop of buildHash from slot i on: the pairs hashed so far, or the
\* error, or the panic of a slot outside the stack.
RECURSIVE buildHashLoop(_, _, _, _)
buildHashLoop(v, i, endIndex, hashedPairs) ==
    IF i >= endIndex THEN [pairs |-> hashedPairs, err |-> "", panic |-> FALSE]
    ELSE IF ~InStack(i) \/ ~InStack(i + 1)
    THEN [pairs |-> hashedPairs, err |-> "", panic |-> TRUE]
    ELSE LET key == StackAt(v, i)
             value == StackAt(v, i + 1)
         IN  IF ~Hashable(key)
             THEN [pairs |-> hashedPairs, err |-> "Key is unhashable", panic |-> FALSE]
             ELSE buildHashLoop(v, i + 2, endIndex,
                                Put(hashedPairs, HashKey(key), HashPair(key, value)))

\* Mutant: a key that is not hashable is skipped instead of reported.
RECURSIVE buildHashSkipping(_, _, _)
buildHashSkipping(v, startIndex, endIndex) ==
    IF startIndex >= endIndex THEN [pairs |-> <<>>, err |-> "", panic |-> FALSE]
    ELSE IF ~InStack(startIndex) \/ ~InStack(startIndex + 1)
    THEN [pairs |-> <<>>, err |-> "", panic |-> TRUE]
    ELSE LET rest == buildHashSkipping(v, startIndex + 2, endIndex)
             key == StackAt(v, startIndex)
         IN  IF ~Hashable(key) \/ HashKey(key) \in DOMAIN rest.pairs THEN rest
             ELSE [rest EXCEPT !.pairs = Put(@, HashKey(key),
                                             HashPair(key, StackAt(v, startIndex + 1)))]

buildHash(v, startIndex, endIndex) == buildHashLoop(v, startIndex, endIndex, <<>>)

\* buildArray: the elements, or the panic of a slot outside the stack.
buildArray(v, startIndex, endIndex) ==
    IF \E i \in startIndex .. endIndex - 1 : ~InStack(i)
    THEN [elements |-> <<>>, panic |-> TRUE]
    ELSE [elements |-> [k \in 1 .. endIndex - startIndex |-> StackAt(v, startIndex + k - 1)],
          panic |-> FALSE]

executeMinus(v) ==
    LET p == pop(v) IN
    IF p.panic \/ p.o.type = "nil" THEN Panic(p.vm)
    ELSE IF p.o.type # "INTEGER" THEN Fail(p.vm, "Unsupported type: " \o p.o.type)
    ELSE push(Alloc(p.vm), Integer(p.vm.heapTop, -p.o.int))

\* Mutant: the integer 0 counts as falsy.
executeBangZeroIsFalsy(v) ==
    LET p == pop(v) IN
    IF p.panic THEN Panic(p.vm)
    ELSE IF SameObject(p.o, True) THEN push(p.vm, False)
    ELSE IF SameObject(p.o, False) \/ SameObject(p.o, Null) THEN push(p.vm, True)
    ELSE IF p.o.type = "INTEGER" /\ p.o.int = 0 THEN push(p.vm, True)
    ELSE push(p.vm, False)

executeBang(v) ==
    LET p == pop(v) IN
    IF p.panic THEN Panic(p.vm)
    ELSE IF SameObject(p.o, True) THEN push(p.vm, False)
    ELSE IF SameObject(p.o, False) THEN push(p.vm, True)
    ELSE IF SameObject(p.o, Null) THEN push(p.vm, True)
    ELSE push(p.vm, False)

executeIntegerComparison(v, left, op, right) ==
    IF left.type # "INTEGER" \/ right.type # "INTEGER" THEN Panic(v)
    ELSE CASE op = OpEqual -> push(v, toBooleanObject(left.int = right.int))
           [] op = OpNotEqual -> push(v, toBooleanObject(left.int # right.int))
           [] op = OpGreater -> push(v, toBooleanObject(left.int > right.int))
           [] OTHER -> Fail(v, "Unknown operator: " \o ToString(op))

executeComparison(v, op) ==
    LET pr == pop(v) IN
    IF pr.panic THEN Panic(pr.vm)
    ELSE LET pl == pop(pr.vm)
             right == pr.o
             left == pl.o
         IN  IF pl.panic THEN Panic(pl.vm)
             ELSE IF left.type = "nil" THEN Panic(pl.vm)
             ELSE IF left.type # "INTEGER" /\ right.type = "nil" THEN Panic(pl.vm)
             ELSE IF left.type = "INTEGER" \/ right.type = "INTEGER"
             THEN executeIntegerComparison(pl.vm, left, op, right)
             ELSE CASE op = OpEqual -> push(pl.vm, toBooleanObject(SameObject(right, left)))
                    [] op = OpNotEqual -> push(pl.vm, toBooleanObject(~SameObject(right, left)))
                    [] OTHER -> Fail(pl.vm, "Unknown operator: " \o left.type \o " "
                                              \o ToString(op) \o " " \o right.type)

\* Mutant: two strings are concatenated whatever the operator.
executeBinaryOperationAnyStringOp(v, op) ==
    LET pr == pop(v) IN
    IF pr.panic THEN Panic(pr.vm)
    ELSE LET pl == pop(pr.vm)
             right == pr.o
             left == pl.o
         IN  IF pl.panic THEN Panic(pl.vm)
             ELSE IF left.type = "nil" \/ right.type = "nil" THEN Panic(pl.vm)
             ELSE IF left.type = "INTEGER" /\ right.type = "INTEGER"
             THEN IF op = OpDiv /\ right.int = 0 THEN Panic(pl.vm)
                  ELSE LET result == CASE op = OpAdd -> left.int + right.int
                                       [] op = OpSub -> left.int - right.int
                                       [] op = OpMul -> left.int * right.int
                                       [] op = OpDiv -> Quotient(left.int, right.int)
                       IN  push(Alloc(pl.vm), Integer(pl.vm.heapTop, result))
             ELSE IF left.type = "STRING" /\ right.type = "STRING"
             THEN push(Alloc(pl.vm), String(pl.vm.heapTop, left.str \o right.str))
             ELSE Fail(pl.vm, "Unsupported types for binary operation: "
                               \o left.type \o " " \o right.type)

executeBinaryOperation(v, op) ==
    LET pr == pop(v) IN
    IF pr.panic THEN Panic(pr.vm)
    ELSE LET pl == pop(pr.vm)
             right == pr.o
             left == pl.o
         IN  IF pl.panic THEN Panic(pl.vm)
             ELSE IF left.type = "nil" \/ right.type = "nil" THEN Panic(pl.vm)
             ELSE IF left.type = "INTEGER" /\ right.type = "INTEGER"
             THEN IF op = OpDiv /\ right.int = 0 THEN Panic(pl.vm)
                  ELSE LET result == CASE op = OpAdd -> left.int + right.int
                                       [] op = OpSub -> left.int - right.int
                                       [] op = OpMul -> left.int * right.int
                                       [] op = OpDiv -> Quotient(left.int, right.int)
                       IN  push(Alloc(pl.vm), Integer(pl.vm.heapTop, result))
             ELSE IF left.type = "STRING" /\ right.type = "STRING"
             THEN IF op # OpAdd
                  THEN Fail(pl.vm, "Unsupported operator for string: " \o ToString(op))
                  ELSE push(Alloc(pl.vm), String(pl.vm.heapTop, left.str \o right.str))
             ELSE Fail(pl.vm, "Unsupported types for binary operation: "
                               \o left.type \o " " \o right.type)

(***************************************************************************)
(* The cases of the switch of Run.  v is the VM after the fetch (the ip of *)
(* the current frame is at the opcode), ins the instructions of the        *)
(* current frame and ip the offset of the opcode.                          *)
(***************************************************************************)
execGetLocal(v, ins, ip) ==
    IF Len(SliceFrom(ins, ip + 1)) < 1 THEN Panic(v)
    ELSE LET localIndex == ReadUint8(SliceFrom(ins, ip + 1))
             v1 == AddIp(v, 1)
             frame == currentFrame(v1)
         IN  IF ~InStack(frame.basePointer + localIndex) THEN Panic(v1)
             ELSE push(v1, StackAt(v1, frame.basePointer + localIndex))

execSetLocal(v, ins, ip) ==
    IF Len(SliceFrom(ins, ip + 1)) < 1 THEN Panic(v)
    ELSE LET localIndex == ReadUint8(SliceFrom(ins, ip + 1))
             v1 == AddIp(v, 1)
             frame == currentFrame(v1)
             p == pop(v1)
         IN  IF p.panic THEN Panic(p.vm)
             ELSE IF ~InStack(frame.basePointer + localIndex) THEN Panic(p.vm)
             ELSE Ok([p.vm EXCEPT !.stack = Put(@, frame.basePointer + localIndex, p.o)])

execReturnNothing(v) ==
    LET f == popFrame(v) IN
    push([f.vm EXCEPT !.stackPointer = f.frame.basePointer - 1], Null)

\* Mutant: the return resets the stack pointer to the base pointer and leaves
\* the callee on the stack.
execReturnValueKeepsCallee(v) ==
    LET p == pop(v) IN
    IF p.panic THEN Panic(p.vm)
    ELSE LET f == popFrame(p.vm) IN
         push([f.vm EXCEPT !.stackPointer = f.frame.basePointer], p.o)

execReturnValue(v) ==
    LET p == pop(v) IN
    IF p.panic THEN Panic(p.vm)
    ELSE LET f == popFrame(p.vm) IN
         push([f.vm EXCEPT !.stackPointer = f.frame.basePointer - 1], p.o)

execCall(v, ins, ip) ==
    IF Len(SliceFrom(ins, ip + 1)) < 1 THEN Panic(v)
    ELSE callFunction(AddIp(v, 1), ReadUint8(SliceFrom(ins, ip + 1)))

execIndex(v) ==
    LET pi == pop(v) IN
    IF pi.panic THEN Panic(pi.vm)
    ELSE LET pl == pop(pi.vm) IN
         IF pl.panic THEN Panic(pl.vm)
         ELSE executeIndex(pl.vm, pl.o, pi.o)

execHash(v, ins, ip) ==
    IF Len(SliceFrom(ins, ip + 1)) < 2 THEN Panic(v)
    ELSE LET numElements == ReadUint16(SliceFrom(ins, ip + 1))
             v1 == AddIp(v, 2)
             built == buildHash(v1, v1.stackPointer - numElements, v1.stackPointer)
         IN  IF built.panic THEN Panic(v1)
             ELSE IF built.err # "" THEN Fail(v1, built.err)
             ELSE push([Alloc(v1) EXCEPT !.stackPointer = @ - numElements],
                       Hash(v1.heapTop, built.pairs))

execArray(v, ins, ip) ==
    IF Len(SliceFrom(ins, ip + 1)) < 2 THEN Panic(v)
    ELSE LET numElements == ReadUint16(SliceFrom(ins, ip + 1))
             v1 == AddIp(v, 2)
             built == buildArray(v1, v1.stackPointer - numElements, v1.stackPointer)
         IN  IF built.panic THEN Panic(v1)
             ELSE push([Alloc(v1) EXCEPT !.stackPointer = @ - numElements],
                       Array(v1.heapTop, built.elements))

execGetGlobal(v, ins, ip) ==
    IF Len(SliceFrom(ins, ip + 1)) < 2 THEN Panic(v)
    ELSE LET globalIndex == ReadUint16(SliceFrom(ins, ip + 1))
             v1 == AddIp(v, 2)
         IN  IF ~InGlobals(v1, globalIndex) THEN Panic(v1)
             ELSE push(v1, GlobalAt(v1, globalIndex))

execSetGlobal(v, ins, ip) ==
    IF Len(SliceFrom(ins, ip + 1)) < 2 THEN Panic(v)
    ELSE LET globalIndex == ReadUint16(SliceFrom(ins, ip + 1))
             v1 == AddIp(v, 2)
             p == pop(v1)
         IN  IF p.panic THEN Panic(p.vm)
             ELSE IF ~InGlobals(p.vm, globalIndex) THEN Panic(p.vm)
             ELSE Ok([p.vm EXCEPT !.globals.slots = Put(@, globalIndex, p.o)])

execJumpNotTruthy(v, ins, ip) ==
    IF Len(SliceFrom(ins, ip + 1)) < 2 THEN Panic(v)
    ELSE LET position == ReadUint16(SliceFrom(ins, ip + 1))
             v1 == AddIp(v, 2)
             p == pop(v1)
         IN  IF p.panic THEN Panic(p.vm)
             ELSE IF ~isTruthy(p.o) THEN Ok(SetIp(p.vm, position - 1))
             ELSE Ok(p.vm)

execJump(v, ins, ip) ==
    IF Len(SliceFrom(ins, ip + 1)) < 2 THEN Panic(v)
    ELSE Ok(SetIp(v, ReadUint16(SliceFrom(ins, ip + 1)) - 1))

execConstant(v, ins, ip) ==
    IF Len(SliceFrom(ins, ip + 1)) < 2 THEN Panic(v)
    ELSE LET constIndex == ReadUint16(SliceFrom(ins, ip + 1))
             v1 == AddIp(v, 2)
         IN  IF constIndex >= Len(v1.constants) THEN Panic(v1)
             ELSE push(v1, v1.constants[constIndex + 1])

execPop(v) == LET p == pop(v) IN IF p.panic THEN Panic(p.vm) ELSE Ok(p.vm)

(***************************************************************************)
(* BuildVM: the state after construction.  The main function wraps the     *)
(* bundle's instructions; its frame is the only frame.                     *)
(***************************************************************************)
MainAddr == 4

\* The address of the object at position i of a constant pool.
ConstAddr(i) == MainAddr + 1 + i

BuildVM(bytecode) ==
    [constants |-> bytecode.Constants,
     stack |-> <<>>,
     stackPointer |-> 0,
     globals |-> [len |-> GlobalCapacity, slots |-> <<>>],
     frames |-> (0 :> BuildFrame(MainAddr, 0)),
     framesIndex |-> 1,
     heapTop |-> ConstAddr(Len(bytecode.Constants))]

\* Mutant: the VM keeps the globals BuildVM made.
BuildStatefulVMOwnGlobals(bytecode, g) == BuildVM(bytecode)

BuildStatefulVM(bytecode, g) == [BuildVM(bytecode) EXCEPT !.globals = g]

BuildHeap(bytecode) ==
    (MainAddr :> FunctionObject(bytecode.Instructions, 0, 0)) @@ bytecode.Functions

(***************************************************************************)
(* Run: one action per loop iteration, by the case of the switch taken.    *)
(***************************************************************************)
Fetchable ==
    /\ status = "running"
    /\ vm.framesIndex >= 1
    /\ currentFrame(vm).ip < Len(heap[currentFrame(vm).fn].Instructions) - 1

FetchIns == heap[currentFrame(vm).fn].Instructions
FetchIp == currentFrame(vm).ip + 1
FetchOp == FetchIns[FetchIp + 1]
Fetched == AddIp(vm, 1)

Step(r, c) ==
    /\ vm' = r.vm
    /\ status' = IF r.panic THEN "panic" ELSE IF r.err # "" THEN "error" ELSE "running"
    /\ err' = r.err
    /\ last' = [op |-> FetchOp, ip |-> FetchIp, sp |-> vm.stackPointer,
                fi |-> vm.framesIndex,
                a |-> StackAt(vm, vm.stackPointer - 2),
                b |-> StackAt(vm, vm.stackPointer - 1)]
    /\ calls' = c
    /\ UNCHANGED <<heap, origin, program, compiler, vm0, encoding, parser>>

RunGetLocal ==
    Fetchable /\ FetchOp = OpGetLocal /\ Step(execGetLocal(Fetched, FetchIns, FetchIp), calls)

RunSetLocal ==
    Fetchable /\ FetchOp = OpSetLocal /\ Step(execSetLocal(Fetched, FetchIns, FetchIp), calls)

RunReturnNothing ==
    /\ Fetchable /\ FetchOp = OpReturnNothing
    /\ LET r == execReturnNothing(Fetched)
       IN  Step(r, IF Good(r) THEN SubSeq(calls, 1, Len(calls) - 1) ELSE calls)

RunReturnValue ==
    /\ Fetchable /\ FetchOp = OpReturnValue
    /\ LET r == execReturnValue(Fetched)
       IN  Step(r, IF Good(r) THEN SubSeq(calls, 1, Len(calls) - 1) ELSE calls)

RunCall ==
    /\ Fetchable /\ FetchOp = OpCall
    /\ LET r == execCall(Fetched, FetchIns, FetchIp)
       IN  Step(r, IF Good(r)
                   THEN Append(calls, [sp |-> vm.stackPointer,
                                       argc |-> ReadUint8(SliceFrom(FetchIns, FetchIp + 1)),
                                       stack |-> vm.stack,
                                       ip |-> FetchIp + 1])
                   ELSE calls)

RunIndex == Fetchable /\ FetchOp = OpIndex /\ Step(execIndex(Fetched), calls)

RunHash == Fetchable /\ FetchOp = OpHash /\ Step(execHash(Fetched, FetchIns, FetchIp), calls)

RunArray == Fetchable /\ FetchOp = OpArray /\ Step(execArray(Fetched, FetchIns, FetchIp), calls)

RunGetGlobal ==
    Fetchable /\ FetchOp = OpGetGlobal /\ Step(execGetGlobal(Fetched, FetchIns, FetchIp), calls)

RunSetGlobal ==
    Fetchable /\ FetchOp = OpSetGlobal /\ Step(execSetGlobal(Fetched, FetchIns, FetchIp), calls)

RunNull == Fetchable /\ FetchOp = OpNull /\ Step(push(Fetched, Null), calls)

RunJumpNotTruthy ==
    /\ Fetchable /\ FetchOp = OpJumpNotTruthy
    /\ Step(execJumpNotTruthy(Fetched, FetchIns, FetchIp), calls)

RunJump == Fetchable /\ FetchOp = OpJump /\ Step(execJump(Fetched, FetchIns, FetchIp), calls)

RunConstant ==
    Fetchable /\ FetchOp = OpConstant /\ Step(execConstant(Fetched, FetchIns, FetchIp), calls)

RunBinaryOperation ==
    /\ Fetchable /\ FetchOp \in {OpAdd, OpSub, OpMul, OpDiv}
    /\ Step(executeBinaryOperation(Fetched, FetchOp), calls)

RunPop == Fetchable /\ FetchOp = OpPop /\ Step(execPop(Fetched), calls)

RunTrue == Fetchable /\ FetchOp = OpTrue /\ Step(push(Fetched, True), calls)

RunFalse == Fetchable /\ FetchOp = OpFalse /\ Step(push(Fetched, False), calls)

RunComparison ==
    /\ Fetchable /\ FetchOp \in {OpEqual, OpNotEqual, OpGreater}
    /\ Step(executeComparison(Fetched, FetchOp), calls)

RunBang == Fetchable /\ FetchOp = OpBang /\ Step(executeBang(Fetched), calls)

RunMinus == Fetchable /\ FetchOp = OpMinus /\ Step(executeMinus(Fetched), calls)

\* A byte the switch has no case for: the loop goes on.
RunNoCase ==
    Fetchable /\ FetchOp \notin OpConstant .. OpReturnNothing /\ Step(Ok(Fetched), calls)

\* The loop condition fails: Run returns nil.
RunEnd ==
    /\ status = "running"
    /\ vm.framesIndex >= 1
    /\ currentFrame(vm).ip >= Len(heap[currentFrame(vm).fn].Instructions) - 1
    /\ status' = "returned"
    /\ UNCHANGED <<vm, heap, err, last, calls, origin, program, compiler, vm0, encoding, parser>>

(***************************************************************************)
(* Syntax trees (package ast, as the parser builds them).  A node is a     *)
(* record; fields of different node kinds that hold values of different    *)
(* types carry different names.                                            *)
(***************************************************************************)
Program(statements) == [node |-> "Program", Statements |-> statements]
ExpressionStatement(e) == [node |-> "ExpressionStatement", Expression |-> e]
ReturnStatement(e) == [node |-> "ReturnStatement", ReturnValue |-> e]
BlockStatement(statements) == [node |-> "BlockStatement", Statements |-> statements]
IntegerLiteral(n) == [node |-> "IntegerLiteral", Value |-> n]
Boolean(b) == [node |-> "Boolean", Bool |-> b]
Identifier(name) == [node |-> "Identifier", Name |-> name]
Prefix(op, right) == [node |-> "Prefix", Operator |-> op, Operand |-> right]
Infix(op, left, right) == [node |-> "Infix", Operator |-> op, Left |-> left, Right |-> right]
If(condition, consequence, alternative) ==
    [node |-> "If", Condition |-> condition, Consequence |-> consequence,
     Alternative |-> alternative]
Function(parameters, body) == [node |-> "Function", Parameters |-> parameters, Body |-> body]
Call(function, arguments) == [node |-> "Call", Function |-> function, Arguments |-> arguments]

\* The nil *BlockStatement of an if without else; no tree at all.
NoBlock == [node |-> "nil"]
NoProgram == [node |-> "none"]

(***************************************************************************)
(* The parser of src/parser/parser.go                                      *)
(*                                                                         *)
(* The lexer is not part of the sources: a Parser reads a sequence of      *)
(* tokens that is followed by EOF tokens without end.  A token is its Type *)
(* and its Literal; the nodes leave out their Token field.  The parse      *)
(* functions return the Parser they leave behind together with their       *)
(* result.  The coloured trace output is left out, with one exception:     *)
(* parseGrouped calls String() on its expression, which fails when the     *)
(* expression is the nil interface value.  What the String methods of the  *)
(* nodes do with nil fields depends on package ast, which is not part of   *)
(* the sources.                                                            *)
(***************************************************************************)
Token(type, literal) == [Type |-> type, Literal |-> literal]

EOFToken == Token("EOF", "")

TokenAt(tokens, i) == IF i \in 1 .. Len(tokens) THEN tokens[i] ELSE EOFToken

currentToken(p) == TokenAt(p.tokens, p.pos)

nextToken(p) == TokenAt(p.tokens, p.pos + 1)

BuildParser(tokens) == [tokens |-> tokens, pos |-> 1, errors |-> <<>>, panic |-> FALSE]

GetNextToken(p) == [p EXCEPT !.pos = @ + 1]

reportExpectedTokenError(p, t) ==
    [p EXCEPT !.errors = Append(@, "expected next token: " \o t \o ", actual: "
                                      \o nextToken(p).Type)]

reportMissingPrefixFunctionError(p, t) ==
    [p EXCEPT !.errors = Append(@, "missing prefix function for " \o t)]

GetExpectNextToken(p, t) ==
    IF nextToken(p).Type = t
    THEN [p |-> GetNextToken(p), ok |-> TRUE]
    ELSE [p |-> reportExpectedTokenError(p, t), ok |-> FALSE]

\* The token types with a prefix and with an infix parse function.
prefixMap == {"IDENT", "INT", "BANG", "MINUS", "TRUE", "FALSE", "LPAREN", "IF", "FUNCTION"}

infixMap == {"PLUS", "MINUS", "SLASH", "ASTERISK", "EQ", "NOT_EQ", "LT", "GT", "LPAREN"}

LOWEST == 1
EQUALS == 2
LESSGREATER == 3
SUM == 4
PRODUCT == 5
PREFIX == 6
CALL == 7

precedencesMap ==
    [t \in {"EQ", "NOT_EQ", "LT", "GT", "PLUS", "MINUS", "SLASH", "ASTERISK", "LPAREN"} |->
        CASE t \in {"EQ", "NOT_EQ"} -> EQUALS
          [] t \in {"LT", "GT"} -> LESSGREATER
          [] t \in {"PLUS", "MINUS"} -> SUM
          [] t \in {"SLASH", "ASTERISK"} -> PRODUCT
          [] t = "LPAREN" -> CALL]

getCurrentPrecedence(p) ==
    IF currentToken(p).Type \in DOMAIN precedencesMap
    THEN precedencesMap[currentToken(p).Type] ELSE LOWEST

getNextPrecedence(p) ==
    IF nextToken(p).Type \in DOMAIN precedencesMap
    THEN precedencesMap[nextToken(p).Type] ELSE LOWEST

\* strconv.ParseInt(literal, 0, 64) on the literals of the token streams:
\* base 0 reads a leading 0 as octal, so "010" is 8 and "08" is an error,
\* and a value past 63 bits is an error.
ParseInt(literal) ==
    LET values == ("0" :> 0) @@ ("1" :> 1) @@ ("2" :> 2) @@ ("3" :> 3) @@ ("5" :> 5)
                  @@ ("010" :> 8)
    IN  IF literal \in DOMAIN values
        THEN [value |-> values[literal], ok |-> TRUE]
        ELSE [value |-> 0, ok |-> FALSE]

\* The nil interface value; the non-nil interface value that holds a nil
\* *ast.LetStatement.
NilNode == [node |-> "nil"]

NilLetStatement == [node |-> "LetStatement", pointer |-> "nil"]

LetStatement(name, value) == [node |-> "LetStatement", LetName |-> name, LetValue |-> value]

RECURSIVE parseExpression(_, _)
RECURSIVE parseExpressionLoop(_, _, _)
RECURSIVE parsePrefix(_)
RECURSIVE parseInfix(_, _)
RECURSIVE parseGrouped(_)
RECURSIVE parseIf(_)
RECURSIVE parseFunction(_)
RECURSIVE parseCall(_, _)
RECURSIVE parseCallParametersLoop(_, _)
RECURSIVE parseStatement(_)
RECURSIVE parseBlockLoop(_, _)

parseIdentifier(p) == [p |-> p, node |-> Identifier(currentToken(p).Literal)]

parseIntegerLiteral(p) ==
    LET r == ParseInt(currentToken(p).Literal) IN
    IF ~r.ok
    THEN [p |-> [p EXCEPT !.errors = Append(@, "couldn't parse " \o currentToken(p).Literal
                                                 \o " as integer")],
          node |-> NilNode]
    ELSE [p |-> p, node |-> IntegerLiteral(r.value)]

parseBoolean(p) == [p |-> p, node |-> Boolean(currentToken(p).Type = "TRUE")]

parsePrefix(p) ==
    LET operator == currentToken(p).Literal
        r == parseExpression(GetNextToken(p), PREFIX)
    IN  [p |-> r.p, node |-> Prefix(operator, r.node)]

parseInfixRightFirst(p, left) ==
    LET operator == currentToken(p).Literal
        r == parseExpression(GetNextToken(p), LOWEST)
    IN  [p |-> r.p, node |-> Infix(operator, left, r.node)]

parseInfix(p, left) ==
    LET operator == currentToken(p).Literal
        precedence == getCurrentPrecedence(p)
        r == parseExpression(GetNextToken(p), precedence)
    IN  [p |-> r.p, node |-> Infix(operator, left, r.node)]

\* The trace line of the success branch calls String() on the expression:
\* a nil expression followed by ")" is a nil dereference.
parseGrouped(p) ==
    LET r == parseExpression(GetNextToken(p), LOWEST)
        e == GetExpectNextToken(r.p, "RPAREN")
    IN  IF ~e.ok THEN [p |-> e.p, node |-> NilNode]
        ELSE IF r.node = NilNode THEN [p |-> [e.p EXCEPT !.panic = TRUE], node |-> NilNode]
        ELSE [p |-> e.p, node |-> r.node]

\* parseBlockStatement: the statements up to "}" or EOF.
parseBlockLoop(p, statements) ==
    IF currentToken(p).Type \in {"RBRACE", "EOF"}
    THEN [p |-> p, node |-> BlockStatement(statements)]
    ELSE LET r == parseStatement(p) IN
         parseBlockLoop(GetNextToken(r.p),
                        IF r.node # NilNode THEN Append(statements, r.node) ELSE statements)

parseBlockStatement(p) == parseBlockLoop(GetNextToken(p), <<>>)

parseIf(p) ==
    LET e1 == GetExpectNextToken(p, "LPAREN") IN
    IF ~e1.ok THEN [p |-> e1.p, node |-> NilNode]
    ELSE LET c == parseExpression(GetNextToken(e1.p), LOWEST)
             e2 == GetExpectNextToken(c.p, "RPAREN")
         IN  IF ~e2.ok THEN [p |-> e2.p, node |-> NilNode]
             ELSE LET e3 == GetExpectNextToken(e2.p, "LBRACE") IN
                  IF ~e3.ok THEN [p |-> e3.p, node |-> NilNode]
                  ELSE LET consequence == parseBlockStatement(e3.p) IN
                       IF nextToken(consequence.p).Type # "ELSE"
                       THEN [p |-> consequence.p,
                             node |-> If(c.node, consequence.node, NoBlock)]
                       ELSE LET e4 == GetExpectNextToken(GetNextToken(consequence.p),
                                                         "LBRACE")
                            IN  IF ~e4.ok THEN [p |-> e4.p, node |-> NilNode]
                                ELSE LET alternative == parseBlockStatement(e4.p) IN
                                     [p |-> alternative.p,
                                      node |-> If(c.node, consequence.node,
                                                  alternative.node)]

RECURSIVE parseFunctionParametersLoop(_, _)
parseFunctionParametersLoop(p, identifiers) ==
    IF nextToken(p).Type = "COMMA"
    THEN LET p2 == GetNextToken(GetNextToken(p)) IN
         parseFunctionParametersLoop(p2, Append(identifiers, currentToken(p2).Literal))
    ELSE LET e == GetExpectNextToken(p, "RPAREN") IN
         [p |-> e.p, list |-> IF e.ok THEN identifiers ELSE <<>>]

\* A nil slice and an empty slice are both the empty sequence.
parseFunctionParameters(p) ==
    IF nextToken(p).Type = "RPAREN" THEN [p |-> GetNextToken(p), list |-> <<>>]
    ELSE LET p1 == GetNextToken(p) IN
         parseFunctionParametersLoop(p1, <<currentToken(p1).Literal>>)

parseFunction(p) ==
    LET e1 == GetExpectNextToken(p, "LPAREN") IN
    IF ~e1.ok THEN [p |-> e1.p, node |-> NilNode]
    ELSE LET parameters == parseFunctionParameters(e1.p)
             e2 == GetExpectNextToken(parameters.p, "LBRACE")
         IN  IF ~e2.ok THEN [p |-> e2.p, node |-> NilNode]
             ELSE LET body == parseBlockStatement(e2.p) IN
                  [p |-> body.p, node |-> Function(parameters.list, body.node)]

parseCallParametersLoop(p, args) ==
    IF nextToken(p).Type = "COMMA"
    THEN LET r == parseExpression(GetNextToken(GetNextToken(p)), LOWEST) IN
         parseCallParametersLoop(r.p, Append(args, r.node))
    ELSE LET e == GetExpectNextToken(p, "RPAREN") IN
         [p |-> e.p, list |-> IF e.ok THEN args ELSE <<>>]

parseCallParameters(p) ==
    IF nextToken(p).Type = "RPAREN" THEN [p |-> GetNextToken(p), list |-> <<>>]
    ELSE LET r == parseExpression(GetNextToken(p), LOWEST) IN
         parseCallParametersLoop(r.p, <<r.node>>)

parseCall(p, function) ==
    LET arguments == parseCallParameters(p) IN
    [p |-> arguments.p, node |-> Call(function, arguments.list)]

\* The loop of parseExpression: while the next token binds tighter than
\* precedence, it continues the expression on the left.
parseExpressionLoop(p, precedence, leftExpression) ==
    IF nextToken(p).Type # "SEMICOLON" /\ precedence < getNextPrecedence(p)
    THEN IF nextToken(p).Type \notin infixMap THEN [p |-> p, node |-> leftExpression]
         ELSE LET p1 == GetNextToken(p)
                  r == IF currentToken(p1).Type = "LPAREN"
                       THEN parseCall(p1, leftExpression)
                       ELSE parseInfix(p1, leftExpression)
              IN  parseExpressionLoop(r.p, precedence, r.node)
    ELSE [p |-> p, node |-> leftExpression]

parseExpression(p, precedence) ==
    LET type == currentToken(p).Type IN
    IF type \notin prefixMap
    THEN [p |-> reportMissingPrefixFunctionError(p, type), node |-> NilNode]
    ELSE LET left == CASE type = "IDENT" -> parseIdentifier(p)
                       [] type = "INT" -> parseIntegerLiteral(p)
                       [] type \in {"BANG", "MINUS"} -> parsePrefix(p)
                       [] type \in {"TRUE", "FALSE"} -> parseBoolean(p)
                       [] type = "LPAREN" -> parseGrouped(p)
                       [] type = "IF" -> parseIf(p)
                       [] type = "FUNCTION" -> parseFunction(p)
         IN  parseExpressionLoop(left.p, precedence, left.node)

\* Skips the optional ";" after a statement.
SkipSemicolon(p) == IF nextToken(p).Type = "SEMICOLON" THEN GetNextToken(p) ELSE p

\* The result is a *ast.LetStatement: nil on an error.
parseLetStatement(p) ==
    LET e1 == GetExpectNextToken(p, "IDENT") IN
    IF ~e1.ok THEN [p |-> e1.p, node |-> NilLetStatement]
    ELSE LET name == Identifier(currentToken(e1.p).Literal)
             e2 == GetExpectNextToken(e1.p, "ASSIGN")
         IN  IF ~e2.ok THEN [p |-> e2.p, node |-> NilLetStatement]
             ELSE LET value == parseExpression(GetNextToken(e2.p), LOWEST) IN
                  [p |-> SkipSemicolon(value.p), node |-> LetStatement(name, value.node)]

parseReturnStatement(p) ==
    LET value == parseExpression(GetNextToken(p), LOWEST) IN
    [p |-> SkipSemicolon(value.p), node |-> ReturnStatement(value.node)]

parseExpressionStatement(p) ==
    LET expression == parseExpression(p, LOWEST) IN
    [p |-> SkipSemicolon(expression.p), node |-> ExpressionStatement(expression.node)]

\* The result is an ast.Statement: the pointer a parse function returned,
\* converted to the interface type.  A nil *ast.LetStatement converts to an
\* interface value that is not nil.
parseStatement(p) ==
    CASE currentToken(p).Type = "LET" -> parseLetStatement(p)
      [] currentToken(p).Type = "RETURN" -> parseReturnStatement(p)
      [] OTHER -> parseExpressionStatement(p)

\* No parser at work.
NoParser == BuildParser(<<>>)

(***************************************************************************)
(* package bytecode of src/vm/vm.go: the definitions table and Make        *)
(***************************************************************************)
definitions == (OpConstant :> [Name |-> "OpConstant", OperandWidths |-> <<2>>])

PutUint16LittleEndian(instruction, offset, o) ==
    [instruction EXCEPT ![offset + 1] = (o % 65536) % 256,
                        ![offset + 2] = (o % 65536) \div 256]

\* binary.BigEndian.PutUint16(instruction[offset:], uint16(o))
PutUint16(instruction, offset, o) ==
    [instruction EXCEPT ![offset + 1] = (o % 65536) \div 256,
                        ![offset + 2] = (o % 65536) % 256]

RECURSIVE MakeOperands(_, _, _, _, _)
MakeOperands(instruction, widths, operands, i, offset) ==
    IF i > Len(operands) THEN instruction
    ELSE MakeOperands(IF widths[i] = 2
                      THEN PutUint16(instruction, offset, operands[i])
                      ELSE instruction,
                      widths, operands, i + 1, offset + widths[i])

RECURSIVE SumWidths(_, _)
SumWidths(widths, i) == IF i > Len(widths) THEN 0 ELSE widths[i] + SumWidths(widths, i + 1)

Make(op, operands) ==
    IF op \notin DOMAIN definitions THEN <<>>
    ELSE LET widths == definitions[op].OperandWidths
             numBytes == 1 + SumWidths(widths, 1)
             instruction == [k \in 1 .. numBytes |-> IF k = 1 THEN op % 256 ELSE 0]
         IN  MakeOperands(instruction, widths, operands, 1, 1)

\* The nil *Definition.
NoDefinition == [Name |-> "nil", OperandWidths |-> <<>>]

Lookup(op) ==
    IF op \notin DOMAIN definitions
    THEN [definition |-> NoDefinition, err |-> "Opcode " \o ToString(op) \o " undefined"]
    ELSE [definition |-> definitions[op], err |-> ""]

\* No call of package bytecode under way.
NoEncoding ==
    [stage |-> "none", op |-> 0, operand |-> 0, instruction |-> <<>>, read |-> -1,
     lookup |-> [definition |-> NoDefinition, err |-> ""]]

(***************************************************************************)
(* The compiler of src/compiler/compiler.go                                *)
(*                                                                         *)
(* The two slices of a Compiler are stored without their beginning when    *)
(* the Compiler has compiled `earlier` statements `0;` before: the first   *)
(* `earlier` constants are then the integers 0 of these statements and the *)
(* first 3 * earlier bytes their OpConstant instructions, and the fields   *)
(* constants and instructions list what follows them.                      *)
(***************************************************************************)
BuildCompiler == [instructions |-> <<>>, constants |-> <<>>, earlier |-> 0]

\* len(c.constants), len(c.instructions)
ConstantsLen(c) == c.earlier + Len(c.constants)
InstructionsLen(c) == 3 * c.earlier + Len(c.instructions)

\* c.constants[k], c.instructions[j]
ConstantAt(c, k) ==
    IF k < c.earlier THEN Integer(ConstAddr(k), 0) ELSE c.constants[k - c.earlier + 1]
InstructionAt(c, j) ==
    IF j < 3 * c.earlier THEN Make(OpConstant, <<j \div 3>>)[(j % 3) + 1]
    ELSE c.instructions[j - 3 * c.earlier + 1]

Bytecode(c) ==
    [Instructions |-> [j \in 1 .. InstructionsLen(c) |-> InstructionAt(c, j - 1)],
     Constants |-> [k \in 1 .. ConstantsLen(c) |-> ConstantAt(c, k - 1)]]

addConstant(c, obj) ==
    [c |-> [c EXCEPT !.constants = Append(@, obj)], index |-> ConstantsLen(c)]

addInstruction(c, instruction) ==
    [c |-> [c EXCEPT !.instructions = @ \o instruction], position |-> InstructionsLen(c)]

emit(c, op, operands) == addInstruction(c, Make(op, operands))

\* Compile returns the compiler it leaves and its error ("" is nil).
RECURSIVE Compile(_, _)
RECURSIVE CompileEach(_, _, _)
CompileEach(c, statements, i) ==
    IF i > Len(statements) THEN [c |-> c, err |-> ""]
    ELSE LET r == Compile(c, statements[i]) IN
         IF r.err # "" THEN r ELSE CompileEach(r.c, statements, i + 1)

Compile(c, node) ==
    CASE node.node = "Program" -> CompileEach(c, node.Statements, 1)
      [] node.node = "ExpressionStatement" -> Compile(c, node.Expression)
      [] node.node = "Infix" ->
            LET l == Compile(c, node.Left) IN
            IF l.err # "" THEN l ELSE Compile(l.c, node.Right)
      [] node.node = "IntegerLiteral" ->
            LET integer == Integer(ConstAddr(ConstantsLen(c)), node.Value)
                added == addConstant(c, integer)
            IN  [c |-> emit(added.c, OpConstant, <<added.index>>).c, err |-> ""]
      [] OTHER -> [c |-> c, err |-> ""]

(***************************************************************************)
(* The virtual machine of src/vm/vm.go (names suffixed with 0)             *)
(***************************************************************************)
BuildVM0(bytecode) ==
    [instructions |-> bytecode.Instructions,
     constants |-> bytecode.Constants,
     stack |-> <<>>,
     stackPointer |-> 0,
     i |-> 0]

Top0(v) == IF v.stackPointer = 0 THEN nil ELSE StackAt(v, v.stackPointer - 1)

push0(v, o) ==
    IF v.stackPointer >= stackCapacity THEN Fail(v, "Stack overflow")
    ELSE Ok([v EXCEPT !.stack = Put(@, v.stackPointer, o), !.stackPointer = @ + 1])

\* One iteration of the loop of Run, the increment of i included.
Run0Body(v) ==
    IF v.instructions[v.i + 1] = OpConstant
    THEN IF Len(SliceFrom(v.instructions, v.i + 1)) < 2 THEN Panic(v)
         ELSE LET constIndex == ReadUint16(SliceFrom(v.instructions, v.i + 1))
                  v1 == [v EXCEPT !.i = @ + 2]
              IN  IF constIndex >= Len(v.constants) THEN Panic(v1)
                  ELSE LET r == push0(v1, v.constants[constIndex + 1]) IN
                       IF Good(r) THEN Ok([r.vm EXCEPT !.i = @ + 1]) ELSE r
    ELSE Ok([v EXCEPT !.i = @ + 1])

(***************************************************************************)
(* Bytecode bundles handed to BuildVM by the embedder, written with the    *)
(* instruction encoding: one opcode byte, big-endian operands.             *)
(***************************************************************************)
Ins8(op, x) == <<op, x>>
Ins16(op, x) == <<op, x \div 256, x % 256>>
K(i) == Ins16(OpConstant, i)

(***************************************************************************)
(* The compiler of the design (its section 4.3), for the node kinds        *)
(* Program, BlockStatement, ExpressionStatement, ReturnStatement,          *)
(* IntegerLiteral, Boolean, Prefix, Infix, Identifier (of a parameter),    *)
(* If, Function and Call.  The state is the instruction buffer of the      *)
(* function being compiled with its last and previous instruction, the     *)
(* names of its scope, the constant pool and the compiled functions.       *)
(***************************************************************************)
NoInstruction == [Opcode |-> -1, Position |-> 0]

NewCompiler ==
    [instructions |-> <<>>, last |-> NoInstruction, previous |-> NoInstruction,
     symbols |-> <<>>, constants |-> <<>>, functions |-> <<>>]

EmitInstruction(c, instruction) ==
    [c EXCEPT !.instructions = @ \o instruction,
              !.previous = c.last,
              !.last = [Opcode |-> instruction[1], Position |-> Len(c.instructions)]]

LastInstructionIs(c, op) == Len(c.instructions) > 0 /\ c.last.Opcode = op

RemoveLastPop(c) ==
    [c EXCEPT !.instructions = SubSeq(@, 1, c.last.Position), !.last = c.previous]

ReplaceLastPopWithReturn(c) ==
    [c EXCEPT !.instructions[c.last.Position + 1] = OpReturnValue,
              !.last.Opcode = OpReturnValue]

\* Back-patch the 2-byte operand of the jump at position.
ChangeOperand(c, position, operand) ==
    [c EXCEPT !.instructions[position + 2] = operand \div 256,
              !.instructions[position + 3] = operand % 256]

StripPop(c) == IF LastInstructionIs(c, OpPop) THEN RemoveLastPop(c) ELSE c

InfixOpcode(operator) ==
    CASE operator = "+" -> OpAdd [] operator = "-" -> OpSub
      [] operator = "*" -> OpMul [] operator = "/" -> OpDiv
      [] operator = "==" -> OpEqual [] operator = "!=" -> OpNotEqual
      [] operator \in {">", "<"} -> OpGreater
      [] OTHER -> -1

RECURSIVE CompileNode(_, _)
RECURSIVE CompileNodes(_, _, _)
CompileNodes(c, nodes, i) ==
    IF i > Len(nodes) THEN [c |-> c, err |-> ""]
    ELSE LET r == CompileNode(c, nodes[i]) IN
         IF r.err # "" THEN r ELSE CompileNodes(r.c, nodes, i + 1)

CompileNode(c, node) ==
    CASE node.node \in {"Program", "BlockStatement"} -> CompileNodes(c, node.Statements, 1)
      [] node.node = "ExpressionStatement" ->
            LET r == CompileNode(c, node.Expression) IN
            IF r.err # "" THEN r ELSE [c |-> EmitInstruction(r.c, <<OpPop>>), err |-> ""]
      [] node.node = "ReturnStatement" ->
            LET r == CompileNode(c, node.ReturnValue) IN
            IF r.err # "" THEN r
            ELSE [c |-> EmitInstruction(r.c, <<OpReturnValue>>), err |-> ""]
      [] node.node = "IntegerLiteral" ->
            LET idx == Len(c.constants)
                c1 == [c EXCEPT !.constants = Append(@, Integer(ConstAddr(idx), node.Value))]
            IN  [c |-> EmitInstruction(c1, Ins16(OpConstant, idx)), err |-> ""]
      [] node.node = "Boolean" ->
            [c |-> EmitInstruction(c, IF node.Bool THEN <<OpTrue>> ELSE <<OpFalse>>),
             err |-> ""]
      [] node.node = "Prefix" ->
            LET r == CompileNode(c, node.Operand) IN
            IF r.err # "" THEN r
            ELSE IF node.Operator = "!" THEN [c |-> EmitInstruction(r.c, <<OpBang>>), err |-> ""]
            ELSE IF node.Operator = "-" THEN [c |-> EmitInstruction(r.c, <<OpMinus>>), err |-> ""]
            ELSE [c |-> r.c, err |-> "unknown operator " \o node.Operator]
      [] node.node = "Infix" ->
            LET first == IF node.Operator = "<" THEN node.Right ELSE node.Left
                second == IF node.Operator = "<" THEN node.Left ELSE node.Right
                l == CompileNode(c, first)
            IN  IF l.err # "" THEN l
                ELSE LET r == CompileNode(l.c, second) IN
                     IF r.err # "" THEN r
                     ELSE IF InfixOpcode(node.Operator) = -1
                     THEN [c |-> r.c, err |-> "unknown operator " \o node.Operator]
                     ELSE [c |-> EmitInstruction(r.c, <<InfixOpcode(node.Operator)>>),
                           err |-> ""]
      [] node.node = "Identifier" ->
            IF \E k \in 1 .. Len(c.symbols) : c.symbols[k] = node.Name
            THEN LET k == CHOOSE k \in 1 .. Len(c.symbols) : c.symbols[k] = node.Name IN
                 [c |-> EmitInstruction(c, Ins8(OpGetLocal, k - 1)), err |-> ""]
            ELSE [c |-> c, err |-> "undefined variable " \o node.Name]
      [] node.node = "If" ->
            LET cond == CompileNode(c, node.Condition) IN
            IF cond.err # "" THEN cond
            ELSE LET c1 == EmitInstruction(cond.c, Ins16(OpJumpNotTruthy, 0))
                     jumpNotTruthyPos == c1.last.Position
                     cons == CompileNode(c1, node.Consequence)
                 IN  IF cons.err # "" THEN cons
                     ELSE LET c2 == EmitInstruction(StripPop(cons.c), Ins16(OpJump, 0))
                              jumpPos == c2.last.Position
                              c3 == ChangeOperand(c2, jumpNotTruthyPos, Len(c2.instructions))
                              alt == IF node.Alternative = NoBlock
                                     THEN [c |-> EmitInstruction(c3, <<OpNull>>), err |-> ""]
                                     ELSE LET a == CompileNode(c3, node.Alternative) IN
                                          [c |-> StripPop(a.c), err |-> a.err]
                          IN  IF alt.err # "" THEN alt
                              ELSE [c |-> ChangeOperand(alt.c, jumpPos,
                                                        Len(alt.c.instructions)),
                                    err |-> ""]
      [] node.node = "Function" ->
            LET scope == [c EXCEPT !.instructions = <<>>, !.last = NoInstruction,
                                   !.previous = NoInstruction,
                                   !.symbols = node.Parameters]
                body == CompileNode(scope, node.Body)
            IN  IF body.err # "" THEN [c |-> c, err |-> body.err]
                ELSE LET b1 == IF LastInstructionIs(body.c, OpPop)
                               THEN ReplaceLastPopWithReturn(body.c) ELSE body.c
                         b2 == IF \/ LastInstructionIs(b1, OpReturnValue)
                                  \/ LastInstructionIs(b1, OpReturnNothing)
                               THEN b1 ELSE EmitInstruction(b1, <<OpReturnNothing>>)
                         idx == Len(b2.constants)
                         fn == FunctionObject(b2.instructions, Len(b2.symbols),
                                              Len(node.Parameters))
                         outer == [c EXCEPT
                                     !.constants = Append(b2.constants,
                                                          CompiledFunction(ConstAddr(idx))),
                                     !.functions = b2.functions @@ (ConstAddr(idx) :> fn)]
                     IN  [c |-> EmitInstruction(outer, Ins16(OpConstant, idx)), err |-> ""]
      [] node.node = "Call" ->
            LET f == CompileNode(c, node.Function) IN
            IF f.err # "" THEN f
            ELSE LET args == CompileNodes(f.c, node.Arguments, 1) IN
                 IF args.err # "" THEN args
                 ELSE [c |-> EmitInstruction(args.c, Ins8(OpCall, Len(node.Arguments))),
                       err |-> ""]
      [] OTHER -> [c |-> c, err |-> "unsupported node " \o node.node]


\* The constant pool shared by the assembled bundles.
Pool ==
    << Integer(ConstAddr(0), 0), Integer(ConstAddr(1), 1), Integer(ConstAddr(2), 2),
       Integer(ConstAddr(3), -1),
       String(ConstAddr(4), "a"), String(ConstAddr(5), "a"), String(ConstAddr(6), "b"),
       CompiledFunction(ConstAddr(7)), CompiledFunction(ConstAddr(8)),
       CompiledFunction(ConstAddr(9)), CompiledFunction(ConstAddr(10)),
       CompiledFunction(ConstAddr(11)), CompiledFunction(ConstAddr(12)),
       CompiledFunction(ConstAddr(13)), CompiledFunction(ConstAddr(14)),
       CompiledFunction(ConstAddr(15)), CompiledFunction(ConstAddr(16)),
       String(ConstAddr(17), ""),
       CompiledFunction(ConstAddr(18)), CompiledFunction(ConstAddr(19)),
       CompiledFunction(ConstAddr(20)), CompiledFunction(ConstAddr(21)) >>

PoolFunctions ==
    \* fn() { }
    (ConstAddr(7) :> FunctionObject(<<OpReturnNothing>>, 0, 0))
    \* fn(x) { x }
    @@ (ConstAddr(8) :> FunctionObject(Ins8(OpGetLocal, 0) \o <<OpReturnValue>>, 1, 1))
    \* fn(x, y) { x + y }
    @@ (ConstAddr(9) :> FunctionObject(
            Ins8(OpGetLocal, 0) \o Ins8(OpGetLocal, 1) \o <<OpAdd, OpReturnValue>>, 2, 2))
    \* fn() { f(2) } with f the function at 8
    @@ (ConstAddr(10) :> FunctionObject(
            K(8) \o K(2) \o Ins8(OpCall, 1) \o <<OpReturnValue>>, 0, 0))
    \* fn(x) { let y = x; y }
    @@ (ConstAddr(11) :> FunctionObject(
            Ins8(OpGetLocal, 0) \o Ins8(OpSetLocal, 1) \o Ins8(OpGetLocal, 1)
            \o <<OpReturnValue>>, 2, 1))
    \* a function whose body calls the function below it on the stack: itself
    @@ (ConstAddr(12) :> FunctionObject(Ins8(OpCall, 0), 0, 0))
    \* functions that reserve the locals up to the capacity of the stack
    @@ (ConstAddr(13) :> FunctionObject(<<OpTrue, OpReturnValue>>, stackCapacity - 1, 0))
    @@ (ConstAddr(14) :> FunctionObject(<<OpTrue, OpFalse, OpReturnValue>>,
                                        stackCapacity - 2, 0))
    \* fn() { g() + h(1, g()) } with g at 10 and h at 9
    @@ (ConstAddr(15) :> FunctionObject(
            K(10) \o Ins8(OpCall, 0) \o K(9) \o K(1) \o K(10) \o Ins8(OpCall, 0)
            \o Ins8(OpCall, 2) \o <<OpAdd, OpReturnValue>>, 0, 0))
    \* fn() { {} } entered with the stack full
    @@ (ConstAddr(16) :> FunctionObject(Ins16(OpHash, 0) \o <<OpReturnValue>>,
                                        stackCapacity - 1, 0))
    \* a function whose body ends without a return
    @@ (ConstAddr(18) :> FunctionObject(<<OpTrue>>, 0, 0))
    \* a function with many locals that calls the function at 20, which reads
    \* its last addressable local
    @@ (ConstAddr(19) :> FunctionObject(K(20) \o Ins8(OpCall, 0) \o <<OpReturnValue>>,
                                        stackCapacity - 48, 0))
    @@ (ConstAddr(20) :> FunctionObject(Ins8(OpGetLocal, 255) \o <<OpReturnValue>>, 256, 0))
    \* a function with as many locals as the stack has slots
    @@ (ConstAddr(21) :> FunctionObject(<<OpTrue, OpReturnValue>>, stackCapacity, 0))

Assembled(ins) ==
    [Instructions |-> ins, Constants |-> Pool, Functions |-> PoolFunctions,
     origin |-> "assembled", program |-> NoProgram]

\* Instruction sequences that push one value each: integers, strings (one of
\* them empty), a function, the singletons, arrays and hashes.
Operands ==
    { K(0), K(1), K(2), K(3), K(4), K(5), K(6), K(8), K(17),
      <<OpTrue>>, <<OpFalse>>, <<OpNull>>,
      Ins16(OpArray, 0), Ins16(OpHash, 0),
      K(1) \o K(2) \o Ins16(OpArray, 2),
      K(1) \o K(2) \o Ins16(OpHash, 2),
      K(4) \o K(1) \o <<OpTrue>> \o K(2) \o Ins16(OpHash, 4) }

Callees == { K(i) : i \in (7 .. 16) \union {18, 19, 21} } \union { K(1), <<OpNull>> }

\* The number of arguments a call site pushes, and the argc of its OpCall.
MaxArgs == 2

RECURSIVE Args(_)
Args(n) == IF n = 0 THEN <<>> ELSE Args(n - 1) \o K(n)

BinaryPrograms ==
    { a \o b \o <<op, OpPop>> :
        a \in Operands, b \in Operands,
        op \in {OpAdd, OpSub, OpMul, OpDiv, OpEqual, OpNotEqual, OpGreater, OpIndex} }

UnaryPrograms == { a \o <<op, OpPop>> : a \in Operands, op \in {OpBang, OpMinus} }

HashPrograms ==
    { k1 \o K(1) \o k2 \o K(2) \o Ins16(OpHash, n) \o <<OpPop>> :
        k1 \in Operands, k2 \in Operands, n \in 0 .. 4 }

CallPrograms ==
    { c \o Args(n) \o Ins8(OpCall, argc) \o <<OpPop>> :
        c \in Callees, n \in 0 .. MaxArgs, argc \in 0 .. MaxArgs + 1 }

BranchPrograms ==
    { c \o Ins16(OpJumpNotTruthy, Len(c) + 9) \o K(1) \o Ins16(OpJump, Len(c) + 12)
        \o K(2) \o <<OpPop>> : c \in Operands }

OtherPrograms ==
    { <<>>,
      \* let a = 1; a; (an unset global); locals of no frame
      K(1) \o Ins16(OpSetGlobal, 0) \o Ins16(OpGetGlobal, 0) \o Ins16(OpGetGlobal, 1)
          \o <<OpPop, OpPop>>,
      K(1) \o Ins8(OpSetLocal, 0) \o Ins8(OpGetLocal, 0) \o <<OpPop>>,
      \* let t = true; let f = 1 > 2; let n = null; t == f;
      <<OpTrue>> \o Ins16(OpSetGlobal, 0) \o K(1) \o K(2) \o <<OpGreater>>
          \o Ins16(OpSetGlobal, 1) \o <<OpNull>> \o Ins16(OpSetGlobal, 2)
          \o Ins16(OpGetGlobal, 0) \o Ins16(OpGetGlobal, 1) \o <<OpEqual, OpPop>>,
      \* a jump to itself
      Ins16(OpJump, 0),
      \* return at the top level
      K(1) \o <<OpReturnValue>>,
      <<OpReturnNothing>>,
      \* a byte that is no opcode, a cut operand, a pop of the empty stack
      <<255>> \o K(1) \o <<OpPop>>,
      <<OpConstant, 0>>,
      <<OpPop>>,
      Ins16(OpArray, 0) \o Ins16(OpArray, 1) \o <<OpPop>> }

(***************************************************************************)
(* Programs compiled by the compiler of the design and run by the virtual  *)
(* machine: values, if expressions with and without else, calls of         *)
(* function literals with no or some parameters, calls nested in calls.    *)
(***************************************************************************)
Values == { IntegerLiteral(1), Boolean(TRUE), Boolean(FALSE) }

Blocks ==
    { BlockStatement(<<>>),
      BlockStatement(<<ExpressionStatement(IntegerLiteral(1))>>),
      BlockStatement(<<ReturnStatement(IntegerLiteral(2))>>) }

Ifs ==
    { If(Boolean(b), consequence, alternative) :
        b \in BOOLEAN, consequence \in Blocks, alternative \in Blocks \union {NoBlock} }

Bodies ==
    { <<>>, <<ReturnStatement(IntegerLiteral(1))>> }
    \union { <<ExpressionStatement(e)>> : e \in Values \union Ifs }
    \union { <<ExpressionStatement(e), ExpressionStatement(IntegerLiteral(1))>> : e \in Ifs }

Calls == { Call(Function(<<>>, BlockStatement(body)), <<>>) : body \in Bodies }

NestedCalls ==
    { Call(Function(<<>>, BlockStatement(<<ExpressionStatement(call)>>)), <<>>) :
        call \in Calls }

CallsWithArguments ==
    { Call(Function(<<"x">>, BlockStatement(<<ExpressionStatement(Identifier("x"))>>)),
           <<IntegerLiteral(1)>>),
      Call(Function(<<"x", "y">>,
                    BlockStatement(<<ExpressionStatement(
                        Infix("<", Identifier("x"), Identifier("y")))>>)),
           <<IntegerLiteral(1), IntegerLiteral(2)>>),
      Call(Function(<<"x">>, BlockStatement(<<ExpressionStatement(
                        Prefix("-", Identifier("x")))>>)),
           <<>>) }

CompiledPrograms ==
    { Program(<<ExpressionStatement(e)>>) :
        e \in Values \union Ifs \union Calls \union NestedCalls \union CallsWithArguments }
    \union { Program(<<ExpressionStatement(Infix("+", IntegerLiteral(1), call))>>) :
                call \in Calls }
    \* 1 + fn() { if (true) { }; if (true) { }; 2 }()
    \union { Program(<<ExpressionStatement(
                 Infix("+", IntegerLiteral(1),
                       Call(Function(<<>>, BlockStatement(
                                <<ExpressionStatement(
                                      If(Boolean(TRUE), BlockStatement(<<>>), NoBlock)),
                                  ExpressionStatement(
                                      If(Boolean(TRUE), BlockStatement(<<>>), NoBlock)),
                                  ExpressionStatement(IntegerLiteral(2))>>)),
                            <<>>)))>>) }
    \* return 1; at the top level, alone and after a statement
    \union { Program(<<ReturnStatement(IntegerLiteral(1))>>),
             Program(<<ExpressionStatement(IntegerLiteral(2)),
                       ReturnStatement(IntegerLiteral(1))>>) }

Compiled(tree) ==
    LET c == CompileNode(NewCompiler, tree).c IN
    [Instructions |-> c.instructions, Constants |-> c.constants,
     Functions |-> c.functions, origin |-> "compiled", program |-> tree]

Bundles ==
    { Assembled(ins) : ins \in BinaryPrograms \union UnaryPrograms \union HashPrograms
                                \union CallPrograms \union BranchPrograms
                                \union OtherPrograms }
    \union { Compiled(tree) : tree \in CompiledPrograms }

(***************************************************************************)
(* The virtual machine run on a bundle                                     *)
(***************************************************************************)
Init ==
    \E bytecode \in Bundles :
        /\ vm = BuildVM(bytecode)
        /\ heap = BuildHeap(bytecode)
        /\ status = "running"
        /\ err = ""
        /\ last = [op |-> -1, ip |-> -1, sp |-> 0, fi |-> 1, a |-> nil, b |-> nil]
        /\ calls = <<>>
        /\ origin = bytecode.origin
        /\ program = bytecode.program
        /\ compiler = BuildCompiler
        /\ vm0 = BuildVM0(Bytecode(BuildCompiler))
        /\ encoding = NoEncoding
        /\ parser = NoParser

\* Bundles the embedder runs after another one, over the same globals.
StatefulPrograms ==
    { Ins16(OpGetGlobal, 0) \o Ins16(OpGetGlobal, 1) \o <<OpPop, OpPop>>,
      K(2) \o Ins16(OpSetGlobal, 1) \o Ins16(OpGetGlobal, 1) \o Ins16(OpGetGlobal, 0)
          \o <<OpPop, OpPop>> }

\* The embedder (a REPL) hands the globals of the VM whose Run has ended to
\* BuildStatefulVM with the next bundle and calls Run on the new VM.  The
\* objects made so far stay allocated.
RunStateful ==
    /\ status \in {"returned", "error"}
    /\ origin = "assembled"
    /\ \E ins \in StatefulPrograms :
         LET bytecode == Assembled(ins) IN
         /\ vm' = [BuildStatefulVM(bytecode, vm.globals) EXCEPT !.heapTop = vm.heapTop]
         /\ heap' = BuildHeap(bytecode)
    /\ status' = "running"
    /\ err' = ""
    /\ last' = [op |-> -1, ip |-> -1, sp |-> 0, fi |-> 1, a |-> nil, b |-> nil]
    /\ calls' = <<>>
    /\ origin' = "stateful"
    /\ UNCHANGED <<program, compiler, vm0, encoding, parser>>

\* One iteration of the loop of Run, or its return when the loop condition fails.
Run ==
    \/ RunGetLocal \/ RunSetLocal \/ RunReturnNothing \/ RunReturnValue \/ RunCall
    \/ RunIndex \/ RunHash \/ RunArray \/ RunGetGlobal \/ RunSetGlobal \/ RunNull
    \/ RunJumpNotTruthy \/ RunJump \/ RunConstant \/ RunBinaryOperation \/ RunPop
    \/ RunTrue \/ RunFalse \/ RunComparison \/ RunBang \/ RunMinus \/ RunNoCase
    \/ RunEnd

Next == Run \/ RunStateful

Spec == Init /\ [][Next]_vars

\* Run is sequential code: while it has a next step it takes it.
SpecLive == Init /\ [][Next]_vars /\ WF_vars(Run)

(***************************************************************************)
(* The first toolchain: a program is compiled by Compile of                *)
(* src/compiler/compiler.go, a VM of src/vm/vm.go is built on the bytecode *)
(* and its Run executes it.                                                *)
(***************************************************************************)
Literals == { IntegerLiteral(1), IntegerLiteral(2) }

Expressions ==
    Literals
    \union { Boolean(TRUE), Prefix("-", IntegerLiteral(1)) }
    \union { Infix(op, l, r) : op \in {"+", "*"},
                                l \in Literals \union {Boolean(TRUE)}, r \in Literals }

Programs ==
    { Program(<<>>),
      \* 1 + 2 * 3
      Program(<<ExpressionStatement(
          Infix("+", IntegerLiteral(1),
                Infix("*", IntegerLiteral(2), IntegerLiteral(3))))>>) }
    \union { Program(<<ExpressionStatement(e)>>) : e \in Expressions }
    \union { Program(<<ExpressionStatement(e), ExpressionStatement(f)>>) :
                e \in Expressions, f \in Literals \union {Boolean(TRUE)} }

\* The Compiler after it has compiled n statements `0;`.
CompilerAfter(n) == [BuildCompiler EXCEPT !.earlier = n]

\* The longest instruction sequence the first VM is run on.
MaxInstructions == 12

\* A program handed to a new Compiler, or one more statement handed to a
\* Compiler whose pool holds 65535 or 65536 constants.
InitCompile ==
    /\ \/ /\ program \in Programs
          /\ compiler = BuildCompiler
       \/ /\ program = Program(<<ExpressionStatement(IntegerLiteral(1))>>)
          /\ compiler \in {CompilerAfter(65535), CompilerAfter(65536)}
    /\ vm0 = BuildVM0(Bytecode(BuildCompiler))
    /\ status = "compiling"
    /\ err = ""
    /\ origin = "compiled"
    /\ vm = BuildVM(Bytecode(BuildCompiler))
    /\ heap = <<>>
    /\ last = [op |-> -1, ip |-> -1, sp |-> 0, fi |-> 1, a |-> nil, b |-> nil]
    /\ calls = <<>>
    /\ encoding = NoEncoding
    /\ parser = NoParser

\* compiler.Compile(program)
CompileProgram ==
    /\ status = "compiling"
    /\ LET r == Compile(compiler, program) IN
        /\ compiler' = r.c
        /\ err' = r.err
        /\ status' = IF r.err # "" THEN "error" ELSE "compiled"
    /\ UNCHANGED <<vm, heap, last, calls, origin, program, vm0, encoding, parser>>

\* vm.BuildVM(compiler.Bytecode()), then the call of Run
BuildAndRun ==
    /\ status = "compiled"
    /\ InstructionsLen(compiler) <= MaxInstructions
    /\ vm0' = BuildVM0(Bytecode(compiler))
    /\ status' = "running"
    /\ UNCHANGED <<vm, heap, err, last, calls, origin, program, compiler, encoding, parser>>

\* One iteration of the loop of Run.
Run0Step ==
    /\ status = "running"
    /\ vm0.i < Len(vm0.instructions)
    /\ LET r == Run0Body(vm0) IN
        /\ vm0' = r.vm
        /\ err' = r.err
        /\ status' = IF r.panic THEN "panic" ELSE IF r.err # "" THEN "error" ELSE "running"
    /\ UNCHANGED <<vm, heap, last, calls, origin, program, compiler, encoding, parser>>

\* The loop condition fails: Run returns nil.
Run0End ==
    /\ status = "running"
    /\ vm0.i >= Len(vm0.instructions)
    /\ status' = "returned"
    /\ UNCHANGED <<vm, heap, err, last, calls, origin, program, compiler, vm0, encoding, parser>>

NextCompile == CompileProgram \/ BuildAndRun \/ Run0Step \/ Run0End

SpecCompile == InitCompile /\ [][NextCompile]_vars

(***************************************************************************)
(* Third specification: package bytecode of src/vm/vm.go called directly.  *)
(* A caller makes an instruction from an opcode byte and one operand,      *)
(* reads the operand back from the bytes after the opcode, and looks the   *)
(* opcode up.                                                              *)
(***************************************************************************)
\* Every opcode byte.
Opcodes == 0 .. 255

\* Every value of a 2-byte operand.
Uint16s == 0 .. 65535

\* The operands tried with an opcode: all of them for a defined opcode,
\* the ends of the range for an undefined one (Make does not look at them).
InitBytecode ==
    /\ \E op \in Opcodes :
       \E operand \in IF op \in DOMAIN definitions THEN Uint16s ELSE {0, 65535} :
           encoding = [NoEncoding EXCEPT !.stage = "start", !.op = op, !.operand = operand]
    /\ program = NoProgram
    /\ compiler = BuildCompiler
    /\ vm0 = BuildVM0(Bytecode(BuildCompiler))
    /\ status = "encoding"
    /\ err = ""
    /\ origin = "assembled"
    /\ vm = BuildVM(Bytecode(BuildCompiler))
    /\ heap = <<>>
    /\ last = [op |-> -1, ip |-> -1, sp |-> 0, fi |-> 1, a |-> nil, b |-> nil]
    /\ calls = <<>>
    /\ parser = NoParser

\* bytecode.Make(op, operand)
MakeInstruction ==
    /\ encoding.stage = "start"
    /\ encoding' = [encoding EXCEPT !.stage = "made",
                                    !.instruction = Make(encoding.op, <<encoding.operand>>)]
    /\ UNCHANGED <<vm, heap, status, err, last, calls, origin, program, compiler, vm0, parser>>

\* bytecode.ReadUint16(instruction[1:]), for an instruction that has an operand
ReadOperand ==
    /\ encoding.stage = "made"
    /\ Len(encoding.instruction) >= 3
    /\ encoding' = [encoding EXCEPT !.stage = "read",
                                    !.read = ReadUint16(SliceFrom(encoding.instruction, 1))]
    /\ UNCHANGED <<vm, heap, status, err, last, calls, origin, program, compiler, vm0, parser>>

\* bytecode.Lookup(op)
LookupOpcode ==
    /\ \/ encoding.stage = "read"
       \/ encoding.stage = "made" /\ Len(encoding.instruction) < 3
    /\ encoding' = [encoding EXCEPT !.stage = "done", !.lookup = Lookup(encoding.op)]
    /\ UNCHANGED <<vm, heap, status, err, last, calls, origin, program, compiler, vm0, parser>>

NextBytecode == MakeInstruction \/ ReadOperand \/ LookupOpcode

SpecBytecode == InitBytecode /\ [][NextBytecode]_vars

(***************************************************************************)
(* Fourth specification: ParseProgram on a token stream.                   *)
(***************************************************************************)
SymbolLiterals ==
    ("PLUS" :> "+") @@ ("MINUS" :> "-") @@ ("ASTERISK" :> "*") @@ ("SLASH" :> "/")
    @@ ("EQ" :> "==") @@ ("NOT_EQ" :> "!=") @@ ("LT" :> "<") @@ ("GT" :> ">")
    @@ ("BANG" :> "!") @@ ("ASSIGN" :> "=") @@ ("SEMICOLON" :> ";") @@ ("LPAREN" :> "(")
    @@ ("RPAREN" :> ")") @@ ("LBRACE" :> "{") @@ ("RBRACE" :> "}") @@ ("COMMA" :> ",")
    @@ ("LET" :> "let") @@ ("RETURN" :> "return") @@ ("IF" :> "if") @@ ("ELSE" :> "else")
    @@ ("FUNCTION" :> "fn") @@ ("TRUE" :> "true") @@ ("FALSE" :> "false")

\* The token of a keyword or a sign, of a name, of a number.
Sym(type) == Token(type, SymbolLiterals[type])
Ident(name) == Token("IDENT", name)
Number(literal) == Token("INT", literal)

RECURSIVE Syms(_)
Syms(types) == IF types = <<>> THEN <<>> ELSE <<Sym(Head(types))>> \o Syms(Tail(types))

BinaryOperators == {"PLUS", "MINUS", "ASTERISK", "SLASH", "EQ", "NOT_EQ", "LT", "GT"}

\* The longest chain of binary operators tried.
MaxOperators == 3

\* The k-th operand of a chain: a b c and 1 2 3 in turn.
ChainOperand(k) ==
    IF k % 2 = 0 THEN Ident(<<"a", "b", "c">>[((k \div 2) % 3) + 1])
    ELSE Number(<<"1", "2", "3">>[((k \div 2) % 3) + 1])

RECURSIVE Chains(_)
Chains(n) ==
    IF n = 0 THEN { <<ChainOperand(0)>> }
    ELSE { c \o <<Sym(o), ChainOperand(n)>> : c \in Chains(n - 1), o \in BinaryOperators }

TokenStreams ==
    UNION { Chains(n) : n \in 0 .. MaxOperators }
    \union
    { <<>>,
      \* 1 + 2 * 3      a - b - c;
      <<Number("1"), Sym("PLUS"), Number("2"), Sym("ASTERISK"), Number("3")>>,
      <<Ident("a"), Sym("MINUS"), Ident("b"), Sym("MINUS"), Ident("c"), Sym("SEMICOLON")>>,
      \* let x = 5;     let x = 1 + 2; x
      <<Sym("LET"), Ident("x"), Sym("ASSIGN"), Number("5"), Sym("SEMICOLON")>>,
      <<Sym("LET"), Ident("x"), Sym("ASSIGN"), Number("1"), Sym("PLUS"), Number("2"),
        Sym("SEMICOLON"), Ident("x")>>,
      \* let = 5;       let x 5;       let 5       let
      <<Sym("LET"), Sym("ASSIGN"), Number("5"), Sym("SEMICOLON")>>,
      <<Sym("LET"), Ident("x"), Number("5"), Sym("SEMICOLON")>>,
      <<Sym("LET"), Number("5")>>,
      <<Sym("LET")>>,
      \* if (true) { let = 1; }       fn() { let x 1 }
      Syms(<<"IF", "LPAREN", "TRUE", "RPAREN", "LBRACE", "LET", "ASSIGN">>)
          \o <<Number("1"), Sym("SEMICOLON"), Sym("RBRACE")>>,
      Syms(<<"FUNCTION", "LPAREN", "RPAREN", "LBRACE", "LET">>)
          \o <<Ident("x"), Number("1"), Sym("RBRACE")>>,
      \* return 1;      return
      <<Sym("RETURN"), Number("1"), Sym("SEMICOLON")>>,
      <<Sym("RETURN")>>,
      \* -a * b         !true == false        (1 + 2) * 3
      <<Sym("MINUS"), Ident("a"), Sym("ASTERISK"), Ident("b")>>,
      <<Sym("BANG"), Sym("TRUE"), Sym("EQ"), Sym("FALSE")>>,
      <<Sym("LPAREN"), Number("1"), Sym("PLUS"), Number("2"), Sym("RPAREN"), Sym("ASTERISK"),
        Number("3")>>,
      \* a + b(c, 1) * 2        f()       f(a
      <<Ident("a"), Sym("PLUS"), Ident("b"), Sym("LPAREN"), Ident("c"), Sym("COMMA"),
        Number("1"), Sym("RPAREN"), Sym("ASTERISK"), Number("2")>>,
      <<Ident("f"), Sym("LPAREN"), Sym("RPAREN")>>,
      <<Ident("f"), Sym("LPAREN"), Ident("a")>>,
      \* fn(x, y) { x + y; }    fn(x { }     fn x
      Syms(<<"FUNCTION", "LPAREN">>) \o <<Ident("x"), Sym("COMMA"), Ident("y")>>
          \o Syms(<<"RPAREN", "LBRACE">>) \o <<Ident("x"), Sym("PLUS"), Ident("y")>>
          \o Syms(<<"SEMICOLON", "RBRACE">>),
      Syms(<<"FUNCTION", "LPAREN">>) \o <<Ident("x")>> \o Syms(<<"LBRACE", "RBRACE">>),
      <<Sym("FUNCTION"), Ident("x")>>,
      \* if (1 < 2) { a } else { b }     if (a) { 1; 2     if a     if (a) { } else 1
      Syms(<<"IF", "LPAREN">>) \o <<Number("1"), Sym("LT"), Number("2")>>
          \o Syms(<<"RPAREN", "LBRACE">>) \o <<Ident("a")>>
          \o Syms(<<"RBRACE", "ELSE", "LBRACE">>) \o <<Ident("b"), Sym("RBRACE")>>,
      Syms(<<"IF", "LPAREN">>) \o <<Ident("a")>> \o Syms(<<"RPAREN", "LBRACE">>)
          \o <<Number("1"), Sym("SEMICOLON"), Number("2")>>,
      <<Sym("IF"), Ident("a")>>,
      Syms(<<"IF", "LPAREN">>) \o <<Ident("a")>>
          \o Syms(<<"RPAREN", "LBRACE", "RBRACE", "ELSE">>) \o <<Number("1")>>,
      \* 010; 08; 1 +       ) ;      ( ) )      (1
      <<Number("010"), Sym("SEMICOLON"), Number("08"), Sym("SEMICOLON"), Number("1"), Sym("PLUS")>>,
      <<Sym("RPAREN"), Sym("SEMICOLON")>>,
      <<Sym("LPAREN"), Sym("RPAREN"), Sym("RPAREN")>>,
      <<Sym("LPAREN"), Number("1")>> }

InitParse ==
    /\ \E tokens \in TokenStreams : parser = BuildParser(tokens)
    /\ program = Program(<<>>)
    /\ status = "parsing"
    /\ compiler = BuildCompiler
    /\ vm0 = BuildVM0(Bytecode(BuildCompiler))
    /\ err = ""
    /\ origin = "assembled"
    /\ vm = BuildVM(Bytecode(BuildCompiler))
    /\ heap = <<>>
    /\ last = [op |-> -1, ip |-> -1, sp |-> 0, fi |-> 1, a |-> nil, b |-> nil]
    /\ calls = <<>>
    /\ encoding = NoEncoding

\* One iteration of the loop of ParseProgram.
ParseStatement ==
    /\ status = "parsing"
    /\ currentToken(parser).Type # "EOF"
    /\ LET r == parseStatement(parser) IN
        IF r.p.panic
        THEN /\ parser' = r.p
             /\ status' = "panic"
             /\ UNCHANGED program
        ELSE /\ parser' = GetNextToken(r.p)
             /\ program' = IF r.node # NilNode
                           THEN [program EXCEPT !.Statements = Append(@, r.node)]
                           ELSE program
             /\ UNCHANGED status
    /\ UNCHANGED <<vm, heap, err, last, calls, origin, compiler, vm0, encoding>>

\* The current token is EOF: ParseProgram returns the program.
ParseProgramEnd ==
    /\ status = "parsing"
    /\ currentToken(parser).Type = "EOF"
    /\ status' = "parsed"
    /\ UNCHANGED <<vm, heap, err, last, calls, origin, program, compiler, vm0, encoding, parser>>

ParseProgram == ParseStatement \/ ParseProgramEnd

SpecParse == InitParse /\ [][ParseProgram]_vars

(***************************************************************************)
(* Shorthands of the properties                                            *)
(***************************************************************************)
Top(v) == StackAt(v, v.stackPointer - 1)

\* The step about to be taken executes opcode op.
Executing(op) == Fetchable /\ FetchOp = op

\* The 1-byte and 2-byte operand of the instruction about to be executed.
Operand8 == ReadUint8(SliceFrom(FetchIns, FetchIp + 1))
Operand16 == ReadUint16(SliceFrom(FetchIns, FetchIp + 1))

(***************************************************************************)
(* C1: when the callee of a successful OpCall with argc arguments executes *)
(* its matching OpReturnValue or OpReturnNothing, the stack pointer after  *)
(* the return is the stack pointer before the OpCall minus argc, and the   *)
(* slot that held the callee holds the returned value (Null for            *)
(* OpReturnNothing), at every depth of nesting.                            *)
(***************************************************************************)
C1_ReturnStep ==
    (/\ Fetchable
     /\ FetchOp \in {OpReturnValue, OpReturnNothing}
     /\ Len(calls) > 0
     /\ status' = "running")
    => LET call == calls[Len(calls)] IN
       /\ vm'.stackPointer = call.sp - call.argc
       /\ StackAt(vm', call.sp - 1 - call.argc) =
              (IF FetchOp = OpReturnNothing THEN Null ELSE Top(vm))
       /\ vm'.framesIndex = vm.framesIndex - 1

C1_CallReturnBalance == [][C1_ReturnStep]_vars

\* A return from a call nested in two other calls has handed an integer
\* back to its caller.
C1_Witness ==
    /\ status = "running"
    /\ last.op = OpReturnValue
    /\ last.fi >= 4
    /\ vm.framesIndex = last.fi - 1
    /\ Top(vm) = last.b
    /\ last.b.type = "INTEGER"

C3_CompiledProgramLeavesEmptyStack ==
    (status = "returned" /\ program # NoProgram) => vm0.stackPointer = 0

(***************************************************************************)
(* C4: an OpCall executed when the frame stack already holds frameCapacity *)
(* frames makes Run return an error; it does not write past the end of the *)
(* frame stack or crash the host.                                          *)
(***************************************************************************)
C4_FrameOverflowIsError ==
    (last.op = OpCall /\ last.fi = frameCapacity) => status = "error"

(***************************************************************************)
(* C5: a push attempted with stackPointer at the capacity of the operand   *)
(* stack returns the error "Stack overflow", leaves stackPointer and every *)
(* slot unchanged and makes Run return that error; a push with             *)
(* stackPointer below the capacity stores the value at stack[stackPointer] *)
(* and increments stackPointer by exactly 1.  Stated of the instructions   *)
(* that only push: OpTrue, OpFalse, OpNull, OpConstant.                    *)
(***************************************************************************)
C5_Pushed ==
    CASE FetchOp = OpTrue -> True
      [] FetchOp = OpFalse -> False
      [] FetchOp = OpNull -> Null
      [] FetchOp = OpConstant -> vm.constants[Operand16 + 1]

C5_PushStep ==
    (/\ Fetchable
     /\ FetchOp \in {OpTrue, OpFalse, OpNull, OpConstant}
     /\ FetchOp = OpConstant =>
            /\ Len(SliceFrom(FetchIns, FetchIp + 1)) >= 2
            /\ Operand16 < Len(vm.constants))
    => LET sp == vm.stackPointer IN
       /\ sp = stackCapacity =>
            /\ status' = "error"
            /\ err' = "Stack overflow"
            /\ vm'.stackPointer = sp
            /\ vm'.stack = vm.stack
       /\ sp < stackCapacity =>
            /\ status' = "running"
            /\ vm'.stackPointer = sp + 1
            /\ vm'.stack = Put(vm.stack, sp, C5_Pushed)

C5_PushAtCapacity == [][C5_PushStep]_vars

\* Run has returned "Stack overflow" from a push at stackPointer = capacity.
C5_Witness ==
    /\ status = "error"
    /\ err = "Stack overflow"
    /\ last.op \in {OpTrue, OpFalse}
    /\ last.sp = stackCapacity
    /\ vm.stackPointer = stackCapacity

(***************************************************************************)
(* C6: OpCall argc returns an error from Run, pushing no frame and leaving *)
(* the stack pointer, when the value at stack[sp - 1 - argc] is not a      *)
(* compiled function or is one whose NumParameters differs from argc;      *)
(* otherwise it pushes exactly one frame with basePointer = sp - argc and  *)
(* ip = -1 and sets sp = basePointer + NumLocals.                          *)
(* As amended, the second half holds while the frame stack has room.       *)
(***************************************************************************)
C6_CallStep(whenRoom) ==
    (/\ Executing(OpCall)
     /\ Len(SliceFrom(FetchIns, FetchIp + 1)) >= 1
     /\ InStack(vm.stackPointer - 1 - Operand8))
    => LET argc == Operand8
           sp == vm.stackPointer
           fi == vm.framesIndex
           callee == StackAt(vm, sp - 1 - argc)
       IN  IF callee.type # "COMPILED_FUNCTION"
           THEN /\ status' = "error" /\ err' = "Calling non-function"
                /\ vm'.framesIndex = fi /\ vm'.stackPointer = sp
           ELSE IF heap[callee.addr].NumParameters # argc
           THEN /\ status' = "error" /\ err' # ""
                /\ vm'.framesIndex = fi /\ vm'.stackPointer = sp
           ELSE (whenRoom => fi < frameCapacity) =>
                /\ status' = "running"
                /\ vm'.framesIndex = fi + 1
                /\ vm'.frames[fi] = [fn |-> callee.addr, ip |-> -1, basePointer |-> sp - argc]
                /\ \A i \in 0 .. fi - 2 : vm'.frames[i] = vm.frames[i]
                /\ vm'.stackPointer = (sp - argc) + heap[callee.addr].NumLocals

C7_ComparisonNeverCrashes ==
    (/\ last.op \in {OpEqual, OpNotEqual, OpGreater}
     /\ last.a.type # "nil"
     /\ last.b.type # "nil")
    => /\ status # "panic"
       /\ status = "running" => (SameObject(Top(vm), True) \/ SameObject(Top(vm), False))

(***************************************************************************)
(* C8: for two operands that are neither integers nor the singletons       *)
(* (notably two strings), OpEqual pushes True exactly when the two values  *)
(* have equal content and OpNotEqual exactly when their content differs,   *)
(* whether or not they are the same object.                                *)
(***************************************************************************)
C8_SameContent(a, b) == [a EXCEPT !.addr = 0] = [b EXCEPT !.addr = 0]

C8_EqualityByContent ==
    (/\ last.op \in {OpEqual, OpNotEqual}
     /\ last.a.type \in {"STRING", "ARRAY", "HASH", "COMPILED_FUNCTION"}
     /\ last.b.type \in {"STRING", "ARRAY", "HASH", "COMPILED_FUNCTION"}
     /\ status = "running")
    => (SameObject(Top(vm), True)
          <=> ((last.op = OpEqual) <=> C8_SameContent(last.a, last.b)))

(***************************************************************************)
(* C9: OpIndex on an array with an integer index i pushes element i when   *)
(* 0 <= i < len(array) and Null for every other integer i, without an      *)
(* error; OpIndex on a hash with a hashable key pushes the stored value    *)
(* when the key is present and Null when it is absent.  In both cases the  *)
(* two operands are replaced by the one result: the stack pointer          *)
(* decreases by exactly 1 and the slots below are untouched.               *)
(***************************************************************************)
C9_Result(left, index) ==
    IF left.type = "ARRAY"
    THEN IF 0 <= index.int /\ index.int < Len(left.Elements)
         THEN left.Elements[index.int + 1]
         ELSE Null
    ELSE IF HashKey(index) \in DOMAIN left.Pairs
         THEN left.Pairs[HashKey(index)].Value
         ELSE Null

C9_IndexStep ==
    (/\ Executing(OpIndex)
     /\ vm.stackPointer >= 2
     /\ LET left == StackAt(vm, vm.stackPointer - 2)
            index == Top(vm)
        IN  \/ left.type = "ARRAY" /\ index.type = "INTEGER"
            \/ left.type = "HASH" /\ Hashable(index))
    => LET sp == vm.stackPointer
           left == StackAt(vm, sp - 2)
           index == Top(vm)
       IN  /\ status' = "running"
           /\ err' = ""
           /\ vm'.stackPointer = sp - 1
           /\ Top(vm') = C9_Result(left, index)
           /\ \A j \in 0 .. sp - 3 : StackAt(vm', j) = StackAt(vm, j)

C9_IndexPushesElementOrNull == [][C9_IndexStep]_vars

\* An array of two elements indexed by 2, its length, has given Null.
C9_Witness ==
    /\ status = "running"
    /\ last.op = OpIndex
    /\ last.a.type = "ARRAY"
    /\ last.b.type = "INTEGER"
    /\ Len(last.a.Elements) = 2
    /\ last.b.int = 2
    /\ vm.stackPointer = last.sp - 1
    /\ Top(vm) = Null

(***************************************************************************)
(* C10: OpHash with a key slot that holds a value that is not hashable,    *)
(* and OpIndex on a hash with a key that is not hashable, make Run return  *)
(* an error and construct or push nothing; with every key hashable,        *)
(* OpHash n replaces the top n slots by one hash that maps each key at an  *)
(* even offset to the value in the slot right after it, the stack pointer  *)
(* decreasing by n - 1.                                                    *)
(* As amended: a key that occurs at several even offsets is mapped to the  *)
(* value after its last occurrence.                                        *)
(* Both are stated for an even n <= stackPointer and, for n = 0, a stack   *)
(* with a free slot for the empty hash.                                    *)
(***************************************************************************)
C10_HashStep(lastWins) ==
    (/\ Executing(OpHash)
     /\ Len(SliceFrom(FetchIns, FetchIp + 1)) >= 2
     /\ Operand16 <= vm.stackPointer
     /\ Operand16 % 2 = 0
     /\ Operand16 > 0 \/ vm.stackPointer < stackCapacity)
    => LET n == Operand16
           sp == vm.stackPointer
           evens == {k \in 0 .. n - 1 : k % 2 = 0}
           keyAt(k) == StackAt(vm, sp - n + k)
           valueAt(k) == StackAt(vm, sp - n + k + 1)
           last_(k) == \A j \in evens :
                          j > k => HashKey(keyAt(j)) # HashKey(keyAt(k))
       IN  IF \E k \in evens : ~Hashable(keyAt(k))
           THEN /\ status' = "error"
                /\ err' = "Key is unhashable"
                /\ vm'.stackPointer = sp
                /\ vm'.stack = vm.stack
                /\ vm'.heapTop = vm.heapTop
           ELSE /\ status' = "running"
                /\ vm'.stackPointer = sp - n + 1
                /\ \A j \in 0 .. sp - n - 1 : StackAt(vm', j) = StackAt(vm, j)
                /\ Top(vm').type = "HASH"
                /\ DOMAIN Top(vm').Pairs = {HashKey(keyAt(k)) : k \in evens}
                /\ \A k \in evens :
                     (lastWins => last_(k)) =>
                        /\ Top(vm').Pairs[HashKey(keyAt(k))].Key = keyAt(k)
                        /\ Top(vm').Pairs[HashKey(keyAt(k))].Value = valueAt(k)

C10_IndexStep ==
    (/\ Executing(OpIndex)
     /\ vm.stackPointer >= 2
     /\ StackAt(vm, vm.stackPointer - 2).type = "HASH"
     /\ ~Hashable(Top(vm)))
    => /\ status' = "error"
       /\ err' = "Unusable as hash key"
       /\ vm'.stackPointer = vm.stackPointer - 2
       /\ vm'.stack = vm.stack

\* The claim as stated.
C10_HashMapsEveryKey == [][C10_HashStep(FALSE) /\ C10_IndexStep]_vars

\* The claim as amended.
C10_HashChecksKeys == [][C10_HashStep(TRUE) /\ C10_IndexStep]_vars

\* OpHash 4 has built a hash of one pair from two pairs with the same key.
C10_Witness ==
    /\ status = "running"
    /\ last.op = OpHash
    /\ vm.stackPointer = last.sp - 3
    /\ Top(vm).type = "HASH"
    /\ Cardinality(DOMAIN Top(vm).Pairs) = 1
    /\ \E k \in DOMAIN Top(vm).Pairs : Top(vm).Pairs[k].Value = last.b

(***************************************************************************)
(* C11: OpBang and truthiness agree on every value on the operand stack:   *)
(* OpBang replaces the value on top by True exactly when it is falsy (it   *)
(* is False or Null) and by False otherwise, and OpJumpNotTruthy takes the *)
(* jump on exactly the falsy values; the integer 0, the empty string and   *)
(* the empty containers are truthy.                                        *)
(***************************************************************************)
C11_Falsy(o) == (o.type = "BOOLEAN" /\ ~o.bool) \/ o.type = "NULL"

C11_BangStep ==
    (Executing(OpBang) /\ vm.stackPointer >= 1)
    => /\ status' = "running"
       /\ vm'.stackPointer = vm.stackPointer
       /\ Top(vm') = (IF C11_Falsy(Top(vm)) THEN True ELSE False)

C11_JumpStep ==
    (/\ Executing(OpJumpNotTruthy)
     /\ Len(SliceFrom(FetchIns, FetchIp + 1)) >= 2
     /\ vm.stackPointer >= 1)
    => /\ status' = "running"
       /\ vm'.stackPointer = vm.stackPointer - 1
       /\ currentFrame(vm').ip =
            (IF C11_Falsy(Top(vm)) THEN Operand16 - 1 ELSE FetchIp + 2)

C11_BangAgreesWithTruthiness == [][C11_BangStep /\ C11_JumpStep]_vars

\* OpBang has replaced the empty string by False.
C11_Witness ==
    /\ status = "running"
    /\ last.op = OpBang
    /\ last.b.type = "STRING"
    /\ last.b.str = ""
    /\ Top(vm) = False

(***************************************************************************)
(* C12: in every reachable state of the VM every boolean held in a slot of *)
(* the operand stack or of the globals is one of the two shared instances  *)
(* True and False and every null is the shared instance Null, so that two  *)
(* of them are the same object exactly when they have the same value.      *)
(***************************************************************************)
C12_Slots ==
    { vm.stack[i] : i \in DOMAIN vm.stack }
    \union { vm.globals.slots[i] : i \in DOMAIN vm.globals.slots }

C12_SharedSingletons ==
    /\ \A o \in C12_Slots :
          /\ o.type = "BOOLEAN" => (o = True \/ o = False)
          /\ o.type = "NULL" => o = Null
    /\ \A a \in C12_Slots : \A b \in C12_Slots :
          /\ (a.type = "BOOLEAN" /\ b.type = "BOOLEAN")
                => (SameObject(a, b) <=> (a.bool = b.bool))
          /\ (a.type = "NULL" /\ b.type = "NULL") => SameObject(a, b)

\* The globals hold True, the False of a comparison and Null.
C12_Witness ==
    /\ status = "running"
    /\ DOMAIN vm.globals.slots = {0, 1, 2}
    /\ vm.globals.slots[0] = True
    /\ last.op = OpSetGlobal
    /\ last.b = Null
    /\ GlobalAt(vm, 1).type = "BOOLEAN"
    /\ ~GlobalAt(vm, 1).bool

(***************************************************************************)
(* C13: OpAdd, OpSub, OpMul and OpDiv pop right then left; with two        *)
(* integers they push the integer result, with two strings and OpAdd they  *)
(* push the concatenation left + right, and for every other combination of *)
(* operand types, or another operator on strings, Run returns an error and *)
(* nothing is pushed.                                                      *)
(* As amended, the integer case excludes OpDiv with a zero divisor.        *)
(***************************************************************************)
C13_IsResult(op, l, r, x) ==
    CASE op = OpAdd -> x = l + r
      [] op = OpSub -> x = l - r
      [] op = OpMul -> x = l * r
      [] op = OpDiv ->
            \* the quotient truncated toward zero
            LET rem == l - x * r IN
            /\ (IF rem >= 0 THEN rem ELSE -rem) < (IF r >= 0 THEN r ELSE -r)
            /\ rem = 0 \/ ((rem > 0) = (l > 0))

C13_BinaryStep(exceptZeroDivisor) ==
    (/\ Fetchable
     /\ FetchOp \in {OpAdd, OpSub, OpMul, OpDiv}
     /\ vm.stackPointer >= 2
     /\ Top(vm).type # "nil"
     /\ StackAt(vm, vm.stackPointer - 2).type # "nil")
    => LET sp == vm.stackPointer
           right == Top(vm)
           left == StackAt(vm, sp - 2)
       IN  IF left.type = "INTEGER" /\ right.type = "INTEGER"
           THEN (exceptZeroDivisor => ~(FetchOp = OpDiv /\ right.int = 0)) =>
                /\ status' = "running"
                /\ vm'.stackPointer = sp - 1
                /\ Top(vm').type = "INTEGER"
                /\ C13_IsResult(FetchOp, left.int, right.int, Top(vm').int)
           ELSE IF left.type = "STRING" /\ right.type = "STRING" /\ FetchOp = OpAdd
           THEN /\ status' = "running"
                /\ vm'.stackPointer = sp - 1
                /\ Top(vm').type = "STRING"
                /\ Top(vm').str = left.str \o right.str
           ELSE /\ status' = "error"
                /\ err' # ""
                /\ vm'.stackPointer = sp - 2
                /\ vm'.stack = vm.stack

\* The claim as stated.
C13_ArithmeticOnEveryIntegerPair == [][C13_BinaryStep(FALSE)]_vars

\* The claim as amended.
C13_ArithmeticOrError == [][C13_BinaryStep(TRUE)]_vars

\* "a" + "b" has pushed "ab".
C13_Witness ==
    /\ status = "running"
    /\ last.op = OpAdd
    /\ last.a.type = "STRING" /\ last.a.str = "a"
    /\ last.b.type = "STRING" /\ last.b.str = "b"
    /\ vm.stackPointer = last.sp - 1
    /\ Top(vm).type = "STRING"
    /\ Top(vm).str = "ab"

(***************************************************************************)
(* C14: OpSetGlobal idx pops the top value into globals[idx] and leaves    *)
(* every other slot of the globals unchanged; OpGetGlobal idx pushes the   *)
(* value of globals[idx]; no other step changes the globals, the building  *)
(* of a new VM with BuildStatefulVM over them included, and that VM starts *)
(* with stackPointer 0 and the main frame alone.  So a later OpGetGlobal   *)
(* idx pushes the value set, in the same run and in the next VM's run.     *)
(***************************************************************************)
C14_GlobalsStep ==
    /\ (Executing(OpSetGlobal) /\ Len(SliceFrom(FetchIns, FetchIp + 1)) >= 2
            /\ vm.stackPointer >= 1)
       => /\ status' = "running"
          /\ vm'.stackPointer = vm.stackPointer - 1
          /\ GlobalAt(vm', Operand16) = Top(vm)
          /\ \A i \in 0 .. GlobalCapacity - 1 :
                i # Operand16 => GlobalAt(vm', i) = GlobalAt(vm, i)
    /\ (Executing(OpGetGlobal) /\ Len(SliceFrom(FetchIns, FetchIp + 1)) >= 2
            /\ vm.stackPointer < stackCapacity)
       => /\ status' = "running"
          /\ vm'.stackPointer = vm.stackPointer + 1
          /\ Top(vm') = GlobalAt(vm, Operand16)
    /\ ~Executing(OpSetGlobal) => vm'.globals = vm.globals
    /\ origin' # origin
       => /\ vm'.stackPointer = 0
          /\ vm'.framesIndex = 1
          /\ vm'.frames = (0 :> BuildFrame(MainAddr, 0))

C14_GlobalsKeepBindings == [][C14_GlobalsStep]_vars

\* The second VM has pushed the integer the first VM bound to global 0.
C14_Witness ==
    /\ origin = "stateful"
    /\ status = "running"
    /\ last.op = OpGetGlobal
    /\ last.ip = 0
    /\ Top(vm).type = "INTEGER"
    /\ Top(vm) = GlobalAt(vm, 0)

(***************************************************************************)
(* C15: for every integer literal compiled, the 16-bit operand decoded     *)
(* from the emitted OpConstant instruction is the position at which the    *)
(* literal was appended to the constant pool, hence less than the final    *)
(* length of the pool; and when the pool would need an index that does not *)
(* fit in 16 bits Compile returns an error instead of a truncated index.   *)
(***************************************************************************)
C15_CompileStep ==
    (status = "compiling" /\ status' # "compiling")
    => LET before == ConstantsLen(compiler)
           added == ConstantsLen(compiler') - before
           at == InstructionsLen(compiler)
           byte(j) == InstructionAt(compiler', j)
       IN  IF before + added > 65536
           THEN status' = "error"
           ELSE /\ InstructionsLen(compiler') = at + 3 * added
                /\ \A j \in 0 .. added - 1 :
                     /\ byte(at + 3 * j) = OpConstant
                     /\ ReadUint16(<<byte(at + 3 * j + 1), byte(at + 3 * j + 2)>>)
                            = before + j
                     /\ before + j < ConstantsLen(compiler')

C15_ConstantIndexIsPosition == [][C15_CompileStep]_vars

(***************************************************************************)
(* C16: compiling an Infix node with one of the operators + - * / == != >  *)
(* emits the instructions of the left operand, then those of the right     *)
(* operand, then exactly one opcode, the operator's; and running the       *)
(* program compiled for 1 + 2 * 3 ends with the integer 7 as its result.   *)
(***************************************************************************)
C16_InfixEmitsOperator ==
    /\ (/\ status = "compiled"
        /\ Len(program.Statements) = 1
        /\ program.Statements[1].Expression.node = "Infix")
       => LET e == program.Statements[1].Expression
              operands == Compile(Compile(BuildCompiler, e.Left).c, e.Right).c
          IN  compiler.instructions
                  = operands.instructions \o <<InfixOpcode(e.Operator)>>
    /\ (/\ status = "returned"
        /\ program = Program(<<ExpressionStatement(
                         Infix("+", IntegerLiteral(1),
                               Infix("*", IntegerLiteral(2), IntegerLiteral(3))))>>))
       => (Top0(vm0).type = "INTEGER" /\ Top0(vm0).int = 7)

(***************************************************************************)
(* C17: Compile returns an error whenever the tree holds a node of a kind  *)
(* it has no case for (Prefix, Boolean, ...), and it stops there: nothing  *)
(* after the first such node is compiled.                                  *)
(***************************************************************************)
RECURSIVE C17_Known(_)
C17_Known(node) ==
    CASE node.node = "Program" ->
            \A i \in 1 .. Len(node.Statements) : C17_Known(node.Statements[i])
      [] node.node = "ExpressionStatement" -> C17_Known(node.Expression)
      [] node.node = "Infix" -> C17_Known(node.Left) /\ C17_Known(node.Right)
      [] node.node = "IntegerLiteral" -> TRUE
      [] OTHER -> FALSE

C17_UnknownNodeIsError ==
    (status # "compiling" /\ program # NoProgram /\ ~C17_Known(program))
    => LET first == CHOOSE i \in 1 .. Len(program.Statements) :
                       /\ ~C17_Known(program.Statements[i])
                       /\ \A k \in 1 .. i - 1 : C17_Known(program.Statements[k])
           known == Program(SubSeq(program.Statements, 1, first - 1))
       IN  /\ status = "error"
           /\ err # ""
           /\ compiler.constants = Compile(BuildCompiler, known).c.constants

(***************************************************************************)
(* C18: for the defined opcode with a 2-byte operand and every operand x   *)
(* in 0..65535, Make(op, x) is three bytes, the opcode and then x with its *)
(* high byte first, and ReadUint16 of the two bytes after the opcode is x; *)
(* for an opcode byte with no definition Make returns the empty sequence   *)
(* and Lookup returns an error.                                            *)
(***************************************************************************)
C18_MakeReadLookupRoundTrip ==
    /\ (/\ encoding.stage \in {"made", "read", "done"}
        /\ encoding.op \in DOMAIN definitions
        /\ definitions[encoding.op].OperandWidths = <<2>>
        /\ encoding.operand \in 0 .. 65535)
       => /\ encoding.instruction
               = <<encoding.op, encoding.operand \div 256, encoding.operand % 256>>
          /\ encoding.stage \in {"read", "done"} => encoding.read = encoding.operand
    /\ (/\ encoding.stage \in {"made", "read", "done"}
        /\ encoding.op \notin DOMAIN definitions)
       => /\ encoding.instruction = <<>>
          /\ encoding.stage = "done"
             => /\ encoding.lookup.err # ""
                /\ encoding.lookup.definition = NoDefinition

C18_Witness ==
    /\ encoding.stage = "done"
    /\ encoding.op = OpConstant
    /\ encoding.operand = 258
    /\ encoding.instruction = <<OpConstant, 1, 2>>
    /\ encoding.read = 258
    /\ encoding.lookup.err = ""

(***************************************************************************)
(* C19: Run returns nil exactly when the main frame's ip reaches the last  *)
(* byte of its instructions, and LastPopped then returns the value the     *)
(* last instruction popped (the value of the final expression statement).  *)
(* In C19_ReturnsAtEndOfFrame the frame is the current one, whichever it   *)
(* is.                                                                     *)
(***************************************************************************)
C19_Pops == {OpPop, OpSetGlobal, OpSetLocal, OpJumpNotTruthy}

C19_AtEnd(v) ==
    /\ v.framesIndex >= 1
    /\ currentFrame(v).ip >= Len(heap[currentFrame(v).fn].Instructions) - 1

C19_RunReturns(mainOnly) ==
    /\ (status = "running" /\ status' = "returned")
       => /\ C19_AtEnd(vm)
          /\ mainOnly => (vm.framesIndex = 1 /\ currentFrame(vm).fn = MainAddr)
          /\ err' = ""
          /\ last.op \in C19_Pops => LastPopped(vm') = last.b
    /\ (status = "running" /\ C19_AtEnd(vm)) => status' = "returned"

C21_LocalSlot ==
    currentFrame(vm).basePointer
        + ReadUint8(SliceFrom(heap[currentFrame(vm).fn].Instructions, last.ip + 1))

C21_StackWithinCapacity ==
    /\ vm.stackPointer \in 0 .. stackCapacity
    /\ (/\ last.op \in {OpGetLocal, OpSetLocal}
        /\ last.fi = vm.framesIndex
        /\ last.ip + 1 < Len(heap[currentFrame(vm).fn].Instructions))
       => InStack(C21_LocalSlot)

(***************************************************************************)
(* C22: a call leaves the caller's part of the stack alone.  While a frame *)
(* pushed by an OpCall is in use, and in the state its return produces,    *)
(* every slot below the callee's slot (index < basePointer - 1) holds the  *)
(* value it held at the OpCall, provided the OpSetLocal indexes of every   *)
(* function are below its NumLocals; and the caller's ip is the ip it had  *)
(* after the operand of the OpCall was decoded.                            *)
(***************************************************************************)
OperandWidth(op) ==
    IF op \in {OpConstant, OpJump, OpJumpNotTruthy, OpSetGlobal, OpGetGlobal, OpArray, OpHash}
    THEN 2
    ELSE IF op \in {OpSetLocal, OpGetLocal, OpCall} THEN 1 ELSE 0

RECURSIVE C22_SetLocalsBelow(_, _, _)
C22_SetLocalsBelow(ins, pos, n) ==
    IF pos > Len(ins) THEN TRUE
    ELSE /\ (ins[pos] = OpSetLocal /\ pos < Len(ins)) => ins[pos + 1] < n
         /\ C22_SetLocalsBelow(ins, pos + 1 + OperandWidth(ins[pos]), n)

C22_SetLocalsInRange ==
    \A a \in DOMAIN heap \ {MainAddr} :
        C22_SetLocalsBelow(heap[a].Instructions, 1, heap[a].NumLocals)

C22_SameBelow(v, call) ==
    \A i \in DOMAIN v.stack \union DOMAIN call.stack :
        i < call.sp - call.argc - 1 => StackAt(v, i) = StackAt([stack |-> call.stack], i)

C22_Step ==
    (status = "running" /\ status' = "running" /\ C22_SetLocalsInRange)
    => /\ \A k \in 1 .. Len(calls') :
              /\ C22_SameBelow(vm', calls'[k])
              /\ vm'.frames[k - 1].ip = calls'[k].ip
       /\ (Len(calls') < Len(calls))
          => /\ C22_SameBelow(vm', calls[Len(calls)])
             /\ currentFrame(vm').ip = calls[Len(calls)].ip

C23_Argument(call, i) == StackAt([stack |-> call.stack], call.sp - call.argc + i)

C23_CallStep ==
    (Fetchable /\ FetchOp = OpCall /\ status' = "running")
    => LET call == calls'[Len(calls')]
           frame == currentFrame(vm')
       IN  /\ frame.basePointer = vm.stackPointer - call.argc
           /\ vm'.stackPointer = frame.basePointer + heap[frame.fn].NumLocals
           /\ \A i \in 0 .. call.argc - 1 :
                  LET r == execGetLocal(vm', Ins8(OpGetLocal, i), 0)
                  IN  Good(r) => Top(r.vm) = C23_Argument(call, i)

C23_GetLocalStep ==
    (/\ Fetchable /\ FetchOp = OpGetLocal /\ status' = "running"
     /\ Len(calls) >= 1
     /\ Operand8 < calls[Len(calls)].argc)
    => Top(vm') = C23_Argument(calls[Len(calls)], Operand8)

C23_ArgumentsAreFirstLocals == [][C23_CallStep /\ C23_GetLocalStep]_vars

C23_Witness ==
    /\ status = "running"
    /\ last.op = OpGetLocal
    /\ last.ip = 2
    /\ Len(calls) >= 1
    /\ calls[Len(calls)].argc = 2
    /\ Top(vm) = C23_Argument(calls[Len(calls)], 1)
    /\ Top(vm).type = "INTEGER"
    /\ Top(vm).int = 2

(***************************************************************************)
(* C24: Run terminates on every bundle in which each jump target is        *)
(* greater than the offset of its jump instruction and no function is      *)
(* called from within its own execution: a running VM leads to the loop    *)
(* ending at the end of the main frame's instructions or to an error       *)
(* returned (or to a function entered a second time, which the claim       *)
(* leaves out).                                                            *)
(***************************************************************************)
RECURSIVE C24_JumpsForward(_, _)
C24_JumpsForward(ins, pos) ==
    IF pos > Len(ins) THEN TRUE
    ELSE /\ (ins[pos] \in {OpJump, OpJumpNotTruthy} /\ pos + 2 <= Len(ins))
            => ReadUint16(SliceFrom(ins, pos)) > pos - 1
         /\ C24_JumpsForward(ins, pos + 1 + OperandWidth(ins[pos]))

C24_ForwardJumpsOnly == \A a \in DOMAIN heap : C24_JumpsForward(heap[a].Instructions, 1)

C24_Recursing ==
    \E i, j \in 0 .. vm.framesIndex - 1 : i < j /\ vm.frames[i].fn = vm.frames[j].fn

C24_RunTerminates ==
    (status = "running" /\ C24_ForwardJumpsOnly)
    ~> \/ status = "returned" /\ vm.framesIndex = 1
       \/ status = "error"
       \/ C24_Recursing

(***************************************************************************)
(* C25: every entry of the Statements list of the program returned by      *)
(* ParseProgram, and of every block in it, is a parsed statement: a let    *)
(* statement that failed to parse leaves no entry, in particular no nil    *)
(* let statement.                                                          *)
(***************************************************************************)
RECURSIVE C25_NoNilStatement(_)
C25_NoNilStatement(node) ==
    CASE node.node \in {"Program", "BlockStatement"} ->
            \A i \in 1 .. Len(node.Statements) :
                /\ node.Statements[i] # NilLetStatement
                /\ C25_NoNilStatement(node.Statements[i])
      [] node.node = "ExpressionStatement" -> C25_NoNilStatement(node.Expression)
      [] node.node = "ReturnStatement" -> C25_NoNilStatement(node.ReturnValue)
      [] node.node = "LetStatement" ->
            node # NilLetStatement /\ C25_NoNilStatement(node.LetValue)
      [] node.node = "Prefix" -> C25_NoNilStatement(node.Operand)
      [] node.node = "Infix" ->
            C25_NoNilStatement(node.Left) /\ C25_NoNilStatement(node.Right)
      [] node.node = "If" ->
            /\ C25_NoNilStatement(node.Condition)
            /\ C25_NoNilStatement(node.Consequence)
            /\ C25_NoNilStatement(node.Alternative)
      [] node.node = "Function" -> C25_NoNilStatement(node.Body)
      [] node.node = "Call" ->
            /\ C25_NoNilStatement(node.Function)
            /\ \A i \in 1 .. Len(node.Arguments) : C25_NoNilStatement(node.Arguments[i])
      [] OTHER -> TRUE

C25_FailedLetLeavesNoStatement == C25_NoNilStatement(program)

(***************************************************************************)
(* C26: a chain of operands separated by binary operators parses to the    *)
(* tree in which an operator of higher precedence (== != below < > below   *)
(* + - below * /) binds its operands before a neighbour of lower           *)
(* precedence, and operators of equal precedence group to the left: the    *)
(* root is the last of the operators of lowest precedence.                 *)
(***************************************************************************)
C26_Rank(type) ==
    CASE type \in {"EQ", "NOT_EQ"} -> 1
      [] type \in {"LT", "GT"} -> 2
      [] type \in {"PLUS", "MINUS"} -> 3
      [] type \in {"ASTERISK", "SLASH"} -> 4

\* The tokens without the ";" at their end.
C26_Chain(tokens) ==
    IF tokens # <<>> /\ tokens[Len(tokens)].Type = "SEMICOLON"
    THEN SubSeq(tokens, 1, Len(tokens) - 1) ELSE tokens

C26_IsChain(tokens) ==
    /\ Len(tokens) % 2 = 1
    /\ Len(tokens) >= 3
    /\ \A i \in 1 .. Len(tokens) :
          IF i % 2 = 1
          THEN \/ tokens[i].Type = "IDENT"
               \/ tokens[i].Type = "INT" /\ ParseInt(tokens[i].Literal).ok
          ELSE tokens[i].Type \in BinaryOperators

C26_Operand(token) ==
    IF token.Type = "IDENT" THEN Identifier(token.Literal)
    ELSE IntegerLiteral(ParseInt(token.Literal).value)

RECURSIVE C26_Tree(_, _, _)
C26_Tree(tokens, lo, hi) ==
    IF lo = hi THEN C26_Operand(tokens[lo])
    ELSE LET operators == { k \in lo + 1 .. hi - 1 : k % 2 = 0 }
             root == CHOOSE k \in operators :
                        \A j \in operators :
                            /\ C26_Rank(tokens[k].Type) <= C26_Rank(tokens[j].Type)
                            /\ j > k => C26_Rank(tokens[k].Type) < C26_Rank(tokens[j].Type)
         IN  Infix(tokens[root].Literal,
                   C26_Tree(tokens, lo, root - 1), C26_Tree(tokens, root + 1, hi))

C26_InfixRespectsPrecedence ==
    /\ (status = "parsed" /\ C26_IsChain(C26_Chain(parser.tokens)))
       => LET chain == C26_Chain(parser.tokens) IN
          /\ parser.errors = <<>>
          /\ program.Statements = <<ExpressionStatement(C26_Tree(chain, 1, Len(chain)))>>
    \* -a * b is (-a) * b
    /\ (/\ status = "parsed"
        /\ parser.tokens = <<Sym("MINUS"), Ident("a"), Sym("ASTERISK"), Ident("b")>>)
       => program.Statements
            = <<ExpressionStatement(
                    Infix("*", Prefix("-", Identifier("a")), Identifier("b")))>>
    \* a + b(c, 1) * 2 is a + (b(c, 1) * 2)
    /\ (/\ status = "parsed"
        /\ parser.tokens = <<Ident("a"), Sym("PLUS"), Ident("b"), Sym("LPAREN"), Ident("c"),
                             Sym("COMMA"), Number("1"), Sym("RPAREN"), Sym("ASTERISK"),
                             Number("2")>>)
       => program.Statements
            = <<ExpressionStatement(
                    Infix("+", Identifier("a"),
                          Infix("*", Call(Identifier("b"),
                                          <<Identifier("c"), IntegerLiteral(1)>>),
                                IntegerLiteral(2))))>>

C26_Witness ==
    /\ status = "parsed"
    /\ parser.tokens = <<Number("1"), Sym("PLUS"), Number("2"), Sym("ASTERISK"), Number("3")>>
    /\ program.Statements
         = <<ExpressionStatement(
                 Infix("+", IntegerLiteral(1),
                       Infix("*", IntegerLiteral(2), IntegerLiteral(3))))>>

====
